---- MODULE Spec2Model ----
(***************************************************************************)
(* Talent Scout: the candidate store, the outreach workflow                *)
(* (recruiter_agent.py), the approval action and the reply-routing         *)
(* workflow (scheduler_agent.py), as state machines.                       *)
(*                                                                         *)
(* Each graph node is one action.  The external collaborators (LLM, Gmail, *)
(* Calendar, Slack, Supabase) are nondeterministic: every call either      *)
(* returns or raises, as the try/except blocks of the nodes allow for.     *)
(* Workflows run one at a time (synchronous, single-threaded callers).     *)
(*                                                                         *)
(* Spec        screening saves, outreach, approval and reply-routing       *)
(* SpecReplies reply-routing for one contacted candidate, over every reply *)
(*             text of up to MaxTextLen characters                         *)
(***************************************************************************)
EXTENDS Integers, Sequences, FiniteSets, TLC

(* ------------------------------ bounds -------------------------------- *)
MaxCands == 2
MaxDrafts == 2
MaxEvents == 1
MaxHour == 3
MaxTextLen == 3
MaxFiles == 3       \* PDF files in a resume folder, and rows screening saves
MaxDaysAhead == 4   \* days_ahead of get_free_slots
MaxBusy == 2        \* busy intervals the free/busy query reports
MaxInbox == 2       \* messages get_recent_messages returns
MaxWords == 2       \* words of a resume or job document

(* --------------------------- value domains ---------------------------- *)
\* Python None for the Optional[str] fields
None == "None"
\* Optional ids and times are numbers; 0 stands for None
NoId == 0

\* candidate e-mail values (Candidate.email is Optional[str])
CandEmails == {None, "", "A@x"}
\* sender addresses handed to process_candidate_reply (monitor_inbox hands
\* them over in lower case)
SenderEmails == {"a@x", "b@x"}

\* str.lower() on the addresses of the model
Lower(s) ==
    CASE s = "A@x" -> "a@x"
      [] OTHER -> s

\* Python truthiness of an Optional[str]
Truthy(s) == s # None /\ s # ""

\* labels the classifier may answer ("other" is any label outside the three)
Intents == {"interested", "not_interested", "schedule_time", "other"}

\* error texts
ErrLLM == "llm error"
ErrStore == "store error"
ErrGmail == "gmail error"
ErrCalendar == "calendar error"
ErrSlack == "slack error"
ErrNotFound == "Candidate not found with email"
ErrNoEmail == "Candidate email not available"
ErrNoSlots == "No available slots found"
ErrIndex == "list index out of range"
ErrNoneAttr == "'NoneType' object has no attribute"
ErrFolder == "Resume folder not found"

(* ----------------------------- candidate ------------------------------ *)
\* a Candidate as screening creates it
NewCandidate(email) ==
    [ email |-> email,
      status |-> "screened",
      email_sent |-> FALSE,
      email_draft_id |-> NoId,
      reply_received |-> FALSE,
      interview_scheduled |-> FALSE,
      interview_time |-> NoId,
      calendar_event_id |-> NoId ]

\* the Candidate object a workflow holds: None, or a row read from the store
NoCandidate == [id |-> NoId, email |-> None]

\* the Candidate built from row i (get_candidate, get_candidates_by_status)
Snapshot(rows, i) == [id |-> i] @@ rows[i]

\* the fields of the stored row a workflow's Candidate object was read from
StoredRow(cand) == [f \in DOMAIN cand \ {"id"} |-> cand[f]]

\* variant: the update applies only while the row has the status the lookup
\* of the reply-routing workflow selects by
UpdateCandidateIfContacted(rows, id, updates) ==
    IF id \in DOMAIN rows /\ rows[id].status = "contacted"
    THEN [rows EXCEPT ![id] =
            [f \in DOMAIN @ |-> IF f \in DOMAIN updates THEN updates[f] ELSE @[f]]]
    ELSE rows

\* DatabaseManager.update_candidate: partial update of the row with that id
UpdateCandidate(rows, id, updates) ==
    IF id \in DOMAIN rows
    THEN [rows EXCEPT ![id] =
            [f \in DOMAIN @ |-> IF f \in DOMAIN updates THEN updates[f] ELSE @[f]]]
    ELSE rows

\* DatabaseManager.get_candidates_by_status
CandidatesByStatus(rows, status) == {i \in DOMAIN rows : rows[i].status = status}

(* ------------------------------- slots -------------------------------- *)
\* a slot as get_free_slots returns it: start/end text "<hour>Z"
Slot(h) == [start |-> <<h, "Z">>, end |-> <<h + 1, "Z">>]

\* datetime.fromisoformat(s.replace('Z', '+00:00')): the instant, UTC offset 0
ParseIso(s) == IF s[2] = "Z" THEN s[1] ELSE NoId

Hours == 1..MaxHour

\* what get_free_slots hands to the handlers: available_slots[:3], at most 3
\* slots in chronological order (the handlers also provide for an empty list)
SlotLists ==
    {<<>>}
    \cup {<<Slot(a)>> : a \in Hours}
    \cup {<<Slot(a), Slot(b)>> : a \in Hours, b \in Hours}
    \cup {<<Slot(a), Slot(b), Slot(c)>> : a \in Hours, b \in Hours, c \in Hours}

Chronological(l) == \A i \in 1..Len(l) : \A j \in 1..Len(l) : i < j => l[i].start[1] < l[j].start[1]

FreeSlotResults == {l \in SlotLists : Chronological(l)}

(* --------------------------- get_free_slots --------------------------- *)
\* instants are minutes since Monday 00:00 UTC of some week; a datetime is
\* the instant with its tzinfo
MinutesPerHour == 60
MinutesPerDay == 1440
FirstHour == 9
LastHour == 16
SlotLimit == 3

At(day, hour, minute) == day * MinutesPerDay + hour * MinutesPerHour + minute

\* datetime.utcnow() and datetime.combine(...): no tzinfo
Naive(t) == <<t, "naive">>
\* datetime.fromisoformat(text.replace('Z', '+00:00')): tzinfo UTC
Aware(t) == <<t, "+00:00">>

\* a < b on datetimes: naive against aware raises TypeError
Before(a, b) ==
    CASE a[2] # b[2] -> "TypeError"
      [] a[1] < b[1] -> "True"
      [] OTHER -> "False"

\* slot_start < busy_end and slot_end > busy_start, left to right
SlotOverlaps(slot_start, slot_end, busy) ==
    LET left == Before(slot_start, Aware(busy.end))
    IN  IF left # "True" THEN left ELSE Before(Aware(busy.start), slot_end)

\* the loop over busy_times for one slot: "free", "busy" or "TypeError"
RECURSIVE SlotStatus(_, _, _)
SlotStatus(slot_start, slot_end, busy_times) ==
    IF busy_times = <<>> THEN "free"
    ELSE LET o == SlotOverlaps(slot_start, slot_end, Head(busy_times))
         IN  CASE o = "TypeError" -> "TypeError"
               [] o = "True" -> "busy"
               [] OTHER -> SlotStatus(slot_start, slot_end, Tail(busy_times))

\* now.date(), as a day number
Today(now) == now \div MinutesPerDay

\* variant: only Sunday is skipped
IsWeekendSundayOnly(day) == day % 7 >= 6

\* check_date.weekday() >= 5
IsWeekend(day) == day % 7 >= 5

\* the slot dict appended for a free slot (display left out)
TimedSlot(start, duration) ==
    [start |-> <<start, "Z">>, end |-> <<start + duration, "Z">>]

RECURSIVE AscendingSlots(_, _)
AscendingSlots(starts, duration) ==
    IF starts = {} THEN <<>>
    ELSE LET first == CHOOSE t \in starts : \A u \in starts : t <= u
         IN  <<TimedSlot(first, duration)>> \o AscendingSlots(starts \ {first}, duration)

\* the loop over the hours of one day
DaySlots(now, day, duration, busy_times) ==
    LET hours == FirstHour..LastHour
        status(h) ==
            IF Before(Naive(At(day, h, 0)), Naive(now)) = "True" THEN "past"
            ELSE SlotStatus(Naive(At(day, h, 0)), Naive(At(day, h, 0) + duration),
                            busy_times)
    IN  IF \E h \in hours : status(h) = "TypeError"
        THEN [raised |-> TRUE, slots |-> <<>>]
        ELSE [raised |-> FALSE,
              slots |-> AscendingSlots({At(day, h, 0) : h \in {g \in hours : status(g) = "free"}},
                                       duration)]

\* the loop over day_offset, left once 3 slots are collected
RECURSIVE ScanDays(_, _, _, _, _, _)
ScanDays(now, day_offset, days_ahead, duration, busy_times, available_slots) ==
    IF day_offset >= days_ahead
    THEN [raised |-> FALSE, slots |-> available_slots]
    ELSE IF IsWeekend(Today(now) + day_offset)
    THEN ScanDays(now, day_offset + 1, days_ahead, duration, busy_times, available_slots)
    ELSE LET r == DaySlots(now, Today(now) + day_offset, duration, busy_times)
             found == available_slots \o r.slots
         IN  IF r.raised THEN r
             ELSE IF Len(found) >= SlotLimit
             THEN [raised |-> FALSE, slots |-> found]
             ELSE ScanDays(now, day_offset + 1, days_ahead, duration, busy_times, found)

\* CalendarClient.get_free_slots, given what the free/busy query did
GetFreeSlots(now, days_ahead, duration, query_ok, busy_times) ==
    IF ~query_ok THEN [raised |-> TRUE, slots |-> <<>>]
    ELSE LET r == ScanDays(now, 0, days_ahead, duration, busy_times, <<>>)
         IN  [raised |-> r.raised,
              slots |-> IF Len(r.slots) > SlotLimit
                        THEN SubSeq(r.slots, 1, SlotLimit) ELSE r.slots]

\* inputs: Thursday afternoon, Friday at and just after the last slot start,
\* Saturday
Nows == {At(3, 15, 30), At(4, 16, 0), At(4, 16, 1), At(5, 10, 0)}
Durations == {30, 60, 90}
BusyIntervals ==
    { [start |-> At(4, 15, 30), end |-> At(4, 16, 30)],
      [start |-> At(4, 17, 0), end |-> At(4, 18, 0)],
      [start |-> At(7, 9, 0), end |-> At(7, 11, 0)] }
BusyLists == UNION {[1..n -> BusyIntervals] : n \in 0..MaxBusy}

(* ------------------------- reply text, regex -------------------------- *)
\* "x" is any other word character, " " any non-word character
Chars == {"1", "2", "3", "x", " "}
\* \w of the regex
WordChars == {"1", "2", "3", "x"}

DigitVal(c) ==
    CASE c = "1" -> 1
      [] c = "2" -> 2
      [] c = "3" -> 3
      [] OTHER -> 0

\* re.search(r'\b([1-3])\b', text): positions where the pattern matches
MatchAt(text, i) ==
    /\ text[i] \in {"1", "2", "3"}
    /\ (i = 1 \/ text[i - 1] \notin WordChars)
    /\ (i = Len(text) \/ text[i + 1] \notin WordChars)

Matches(text) == {i \in 1..Len(text) : MatchAt(text, i)}

\* variant: the last match instead of the first
LastMatch(text) ==
    IF Matches(text) = {} THEN 0
    ELSE CHOOSE i \in Matches(text) : \A j \in Matches(text) : i >= j

\* the first match, as re.search returns it; 0 when there is none
FirstMatch(text) ==
    IF Matches(text) = {} THEN 0
    ELSE CHOOSE i \in Matches(text) : \A j \in Matches(text) : i <= j

\* the reply texts the workflow specification draws from
Messages == { <<"x">>, <<"2">>, <<"3", " ", "2">> }

\* every reply text up to MaxTextLen characters
AllTexts == UNION {[1..n -> Chars] : n \in 0..MaxTextLen}


\* variant: an empty answer of the calendar is replaced by a default slot
ChooseSlotDefault(text, slots) ==
    LET m == FirstMatch(text)
        slot_number == DigitVal(text[m]) - 1
    IN  IF slots = <<>>
        THEN [error |-> "", slot |-> Slot(1)]
        ELSE IF m # 0 /\ slot_number < Len(slots)
             THEN [error |-> "", slot |-> slots[slot_number + 1]]
             ELSE [error |-> "", slot |-> slots[1]]

\* handle_schedule_time_node, slot choice: the slot picked from the freshly
\* fetched list, or the error the choice ends in
ChooseSlot(text, slots) ==
    LET m == FirstMatch(text)
        slot_number == DigitVal(text[m]) - 1
    IN  IF m = 0
        THEN IF Len(slots) > 0
             THEN [error |-> "", slot |-> slots[1]]
             ELSE [error |-> ErrNoSlots]
        ELSE IF slot_number < Len(slots)
             THEN [error |-> "", slot |-> slots[slot_number + 1]]
             ELSE IF Len(slots) > 0
                  THEN [error |-> "", slot |-> slots[1]]
                  ELSE [error |-> ErrIndex]

(* ------------------------------- state -------------------------------- *)
VARIABLES
    db,         \* the candidates table: row i has id i
    drafts,     \* number of provider drafts created so far: ids 1..drafts
    calendar,   \* calendar events created so far: event i has id i
    rec,        \* the outreach workflow instance (RecruiterState)
    sched,      \* the reply-routing workflow instance (SchedulerState)
    approval,   \* the last call of the approval action
    scr,        \* the screening workflow instance (ScreenerState)
    pipe,       \* the run of run_full_pipeline
    scan,       \* the run of the scan-inbox command
    parked,     \* a second reply-routing instance, while the first one runs
    call        \* the last call of a pure function, with its result

vars == <<db, drafts, calendar, rec, sched, approval, scr, pipe, scan, parked, call>>

NoSlot == [start |-> <<NoId, "Z">>, end |-> <<NoId, "Z">>]

\* process_candidate_reply: initial_state, with the bookkeeping of what the
\* instance did (lookup .. raised are not fields of SchedulerState); failed
\* holds the nodes that recorded an error, ran their except branch or raised
SchedulerInitialState(email, text) ==
    [ pc |-> "detect_intent",
      candidate_email |-> email,
      message_text |-> text,
      intent |-> "",
      candidate |-> NoCandidate,
      available_slots |-> <<>>,
      calendar_event |-> NoId,
      error |-> "",
      lookup |-> "",
      handler |-> "",
      fetched_slots |-> <<>>,
      chosen_slot |-> NoSlot,
      emails |-> 0,
      events |-> 0,
      updates |-> 0,
      notified |-> 0,
      failed |-> {},
      outcome |-> "",
      raised |-> "" ]

SchedulerIdle == [SchedulerInitialState("b@x", <<>>) EXCEPT !.pc = "idle"]

\* the content of a provider draft
NoDraft == [to |-> None, subject |-> "", body |-> ""]

\* run_recruiter: initial_state, with the bookkeeping of what the instance did
RecruiterInitialState(cand) ==
    [ pc |-> "generate_email",
      candidate |-> cand,
      email_subject |-> "",
      email_body |-> "",
      draft_id |-> NoId,
      approved |-> FALSE,
      error |-> "",
      drafts_created |-> 0,
      draft |-> NoDraft,
      updates |-> 0,
      requests |-> 0,
      failed |-> {},
      outcome |-> "",
      raised |-> "" ]

RecruiterIdle == [RecruiterInitialState(NoCandidate) EXCEPT !.pc = "idle"]

NoApproval ==
    [candidate_id |-> NoId, result |-> "none", sent_draft |-> NoId, error |-> ""]

(* --------------------------- resume folders --------------------------- *)
\* Config.fit_score_threshold, its default
FitScoreThreshold == 75

\* calculate_fit_score raises for this resume
NoScore == -1

Scores == (FitScoreThreshold - 1)..(FitScoreThreshold + 1)

\* what a PDF file is to the workflow: whether parse_resume succeeds on it
\* and, if so, what calculate_fit_score gives for it and the job description
ResumeKinds ==
    {[parses |-> FALSE, fit |-> NoScore]} \cup
    {[parses |-> TRUE, fit |-> x] : x \in Scores \cup {NoScore}}

\* the result of glob("*.pdf"); a file's name is its position in it
PdfFiles ==
    UNION { { [i \in 1..n |-> [name |-> i, parses |-> k[i].parses, fit |-> k[i].fit]] :
                k \in [1..n -> ResumeKinds] } : n \in 0..MaxFiles }

NoFolder == [exists |-> FALSE, pdf_files |-> <<>>]

ResumeFolders == {NoFolder} \cup {[exists |-> TRUE, pdf_files |-> l] : l \in PdfFiles}

\* run_screener: initial_state, with the bookkeeping of what the instance
\* did (rows_before .. raised are not fields of ScreenerState)
ScreenerInitialState(folder, rows) ==
    [ pc |-> "parse_resumes",
      resume_folder |-> folder,
      processed_resumes |-> <<>>,
      qualified_candidates |-> <<>>,
      error |-> "",
      rows_before |-> Len(rows),  \* rows in the store when the run began
      save_fault |-> NoId,        \* the save that raised, see SaveToDatabase
      failed |-> {},
      outcome |-> "none",
      result |-> <<>>,
      raised |-> "" ]

ScreenerIdle == [ScreenerInitialState(NoFolder, <<>>) EXCEPT !.pc = "idle"]

\* run_full_pipeline: results and auto_draft, with the bookkeeping of what
\* the run did (next .. raised are not part of results)
PipelineInitialState(auto_draft, made) ==
    [ pc |-> "screening",
      auto_draft |-> auto_draft,
      qualified_candidates |-> <<>>,
      drafts_created |-> <<>>,
      next |-> 1,                \* position of the loop over the candidates
      outreach_runs |-> <<>>,    \* names run_recruiter was called for
      outreach_outcomes |-> <<>>,\* how each of these calls ended
      drafts_before |-> made,    \* provider drafts when the run began
      outcome |-> "none",
      raised |-> "" ]

PipelineIdle == [PipelineInitialState(FALSE, 0) EXCEPT !.pc = "idle"]

\* monitor_inbox once its listings are done, with the bookkeeping of what
\* the command did (handled .. exit_code are not variables of the code)
ScanInitialState(messages, candidate_emails) ==
    [ pc |-> "loop",
      messages |-> messages,
      candidate_emails |-> candidate_emails,
      next |-> 1,           \* position of the loop over the messages
      handled |-> 0,        \* messages passed to process_candidate_reply
      failure |-> "",       \* the exception monitor_inbox caught, if any
      exit_code |-> NoId ]

\* no scan-inbox command is running
ScanIdle == [ScanInitialState(<<>>, {}) EXCEPT !.pc = "idle"]

\* no pure function has been called
NoCall == [fn |-> "none"]

Init ==
    /\ db = <<>>
    /\ drafts = 0
    /\ calendar = <<>>
    /\ rec = RecruiterIdle
    /\ sched = SchedulerIdle
    /\ approval = NoApproval
    /\ scr = ScreenerIdle
    /\ pipe = PipelineIdle
    /\ scan = ScanIdle
    /\ parked = SchedulerIdle
    /\ call = NoCall

\* no workflow instance is running and no result is waiting for its caller
Quiet ==
    /\ rec.pc = "idle"
    /\ sched.pc = "idle"
    /\ approval.result = "none"
    /\ scr.pc = "idle"
    /\ pipe.pc = "idle"
    /\ scan.pc = "idle"
    /\ parked.pc = "idle"

(* ----------------------------- screening ------------------------------ *)
\* a qualifying candidate is saved: the store assigns the next id
SaveCandidate(email) ==
    /\ Quiet
    /\ Len(db) < MaxCands
    /\ db' = Append(db, NewCandidate(email))
    /\ UNCHANGED <<drafts, calendar, rec, sched, approval, scr, pipe, scan, parked, call>>

(* ------------------------ reply-routing workflow ---------------------- *)
StartReply(email, text) ==
    /\ Quiet
    /\ Len(calendar) < MaxEvents
    /\ sched' = SchedulerInitialState(email, text)
    /\ UNCHANGED <<db, drafts, calendar, rec, approval, scr, pipe, scan, parked, call>>

\* detect_intent_node
DetectIntent ==
    /\ sched.pc = "detect_intent"
    /\ \/ \E label \in Intents : sched' = [sched EXCEPT !.intent = label, !.pc = "get_candidate"]
       \/ sched' = [sched EXCEPT !.error = ErrLLM, !.pc = "get_candidate",
                                 !.failed = @ \cup {"detect_intent"}]
    /\ UNCHANGED <<db, drafts, calendar, rec, approval, scr, pipe, scan, parked, call>>

\* variant: an unmapped intent is handled as a decline
RouteByIntentDefaultDecline(intent) ==
    CASE intent = "interested" -> "handle_interested"
      [] intent = "schedule_time" -> "handle_schedule_time"
      [] OTHER -> "handle_not_interested"

\* route_by_intent
RouteByIntent(intent) ==
    CASE intent = "interested" -> "handle_interested"
      [] intent = "schedule_time" -> "handle_schedule_time"
      [] intent = "not_interested" -> "handle_not_interested"
      [] OTHER -> "end"

\* the statuses get_candidate_node searches
LookupStatuses == {"contacted"}

\* get_candidate_node, then the conditional edge.  The first matching row of
\* the store's answer is taken; the store fixes no order, so any match may be
\* the first.  The third branch is get_candidates_by_status raising.
GetCandidate ==
    /\ sched.pc = "get_candidate"
    /\ LET found == {i \in UNION {CandidatesByStatus(db, st) : st \in LookupStatuses} :
                        /\ Truthy(db[i].email)
                        /\ Lower(db[i].email) = Lower(sched.candidate_email)}
           next == RouteByIntent(sched.intent)
       IN  \/ \E i \in found :
                sched' = [sched EXCEPT !.candidate = Snapshot(db, i), !.lookup = "found", !.pc = next]
           \/ /\ found = {}
              /\ sched' = [sched EXCEPT !.error = ErrNotFound, !.lookup = "not_found", !.pc = next,
                                        !.failed = @ \cup {"get_candidate"}]
           \/ sched' = [sched EXCEPT !.error = ErrStore, !.lookup = "failed", !.pc = next,
                                     !.failed = @ \cup {"get_candidate"}]
    /\ UNCHANGED <<db, drafts, calendar, rec, approval, scr, pipe, scan, parked, call>>

\* a node that raises outside its try block: agent.invoke raises
NodeRaises(st, handler, text) ==
    [st EXCEPT !.pc = "done", !.handler = handler, !.outcome = "raised", !.raised = text,
               !.failed = @ \cup {handler}]


\* variant: the interested update without the status
InterestedUpdatesNoStatus == [reply_received |-> TRUE]

\* the partial updates the operations hand to update_candidate
InterestedUpdates == [status |-> "interested", reply_received |-> TRUE]

\* variant: the interview time taken from the end of the slot
ScheduledUpdatesEndTime(slot, event_id) ==
    [ status |-> "scheduled",
      interview_scheduled |-> TRUE,
      interview_time |-> ParseIso(slot.end),
      calendar_event_id |-> event_id ]

ScheduledUpdates(slot, event_id) ==
    [ status |-> "scheduled",
      interview_scheduled |-> TRUE,
      interview_time |-> ParseIso(slot.start),
      calendar_event_id |-> event_id ]

\* variant: the decline update without reply_received
NotInterestedUpdatesNoFlag == [status |-> "rejected"]

NotInterestedUpdates == [status |-> "rejected", reply_received |-> TRUE]

\* variant: the draft update written before the provider's id is known
DraftUpdatesUnset(draft_id) == [email_draft_id |-> NoId]

DraftUpdates(draft_id) == [email_draft_id |-> draft_id]

\* variant: an approval that also opens a new round of replies
ApprovalUpdatesResetReply ==
    [email_sent |-> TRUE, status |-> "contacted", reply_received |-> FALSE]

ApprovalUpdates == [email_sent |-> TRUE, status |-> "contacted"]

\* variant: the exceptions carry no message, str(e) is empty
ErrorOfNoText(f) == ""

\* str(e) of the exception a failing collaborator call raises
ErrorOf(f) ==
    CASE f = "calendar" -> ErrCalendar
      [] f = "event" -> ErrCalendar
      [] f = "gmail" -> ErrGmail
      [] f = "store" -> ErrStore
      [] f = "slack" -> ErrSlack
      [] f = "llm" -> ErrLLM
      [] OTHER -> ""

\* variant: the store update is issued before the send
InterestedUpdatedBeforeSend(f) == f \notin {"calendar", "store"}

\* is the store update of handle_interested_node issued and successful: it
\* comes after get_free_slots and send_email, a raise of either skips it
InterestedUpdated(f) == f \notin {"calendar", "gmail", "store"}

\* handle_interested_node; f is the collaborator call that raises, if any
HandleInterested ==
    /\ sched.pc = "handle_interested"
    /\ IF sched.candidate = NoCandidate
       THEN /\ sched' = NodeRaises(sched, "handle_interested", ErrNoneAttr)
            /\ db' = db
       ELSE \E f \in {"calendar", "gmail", "store", "slack", "none"} :
            \E slots \in FreeSlotResults :
            \E posted \in BOOLEAN :
              LET fetched == f # "calendar"
                  mailed == f \notin {"calendar", "gmail"}
                  updated == InterestedUpdated(f)
                  notified == f = "none" /\ posted
              IN  /\ sched' = [sched EXCEPT
                        !.pc = "end",
                        !.handler = "handle_interested",
                        !.available_slots = IF fetched THEN slots ELSE @,
                        !.fetched_slots = IF fetched THEN slots ELSE @,
                        !.emails = IF mailed THEN @ + 1 ELSE @,
                        !.updates = IF updated THEN @ + 1 ELSE @,
                        !.notified = IF notified THEN @ + 1 ELSE @,
                        !.failed = IF f = "none" THEN @ ELSE @ \cup {"handle_interested"},
                        !.error = IF f = "none" THEN @ ELSE ErrorOf(f)]
                  /\ db' = IF updated
                           THEN UpdateCandidate(db, sched.candidate.id,
                                    InterestedUpdates)
                           ELSE db
    /\ UNCHANGED <<drafts, calendar, rec, approval, scr, pipe, scan, parked, call>>

\* variant: the list kept in the workflow state is indexed
ScheduleSlotsStored(stored, fetched) == stored

\* the list handle_schedule_time_node indexes: the one get_free_slots has
\* just returned, in both branches; state["available_slots"] is not read
ScheduleSlots(stored, fetched) == fetched

\* handle_schedule_time_node; f is the collaborator call that raises, if any
HandleScheduleTime ==
    /\ sched.pc = "handle_schedule_time"
    /\ IF sched.candidate = NoCandidate
       THEN /\ sched' = NodeRaises(sched, "handle_schedule_time", ErrNoneAttr)
            /\ UNCHANGED <<db, calendar>>
       ELSE \E f \in {"calendar", "event", "gmail", "store", "slack", "none"} :
            \E slots \in FreeSlotResults :
            \E posted \in BOOLEAN :
              LET choice == ChooseSlot(sched.message_text,
                                         ScheduleSlots(sched.available_slots, slots))
                  fetched == f # "calendar"
                  chosen == fetched /\ choice.error = ""
                  created == chosen /\ f # "event"
                  mailed == created /\ f # "gmail"
                  updated == mailed /\ f # "store"
                  notified == updated /\ f = "none" /\ posted
                  event_id == Len(calendar) + 1
              IN  /\ sched' = [sched EXCEPT
                        !.pc = "end",
                        !.handler = "handle_schedule_time",
                        !.fetched_slots = IF fetched THEN slots ELSE @,
                        !.chosen_slot = IF chosen THEN choice.slot ELSE @,
                        !.calendar_event = IF created THEN event_id ELSE @,
                        !.events = IF created THEN @ + 1 ELSE @,
                        !.emails = IF mailed THEN @ + 1 ELSE @,
                        !.updates = IF updated THEN @ + 1 ELSE @,
                        !.notified = IF notified THEN @ + 1 ELSE @,
                        !.failed = IF chosen /\ f = "none" THEN @
                                   ELSE @ \cup {"handle_schedule_time"},
                        !.error = IF ~fetched THEN ErrorOf(f)
                                  ELSE IF ~chosen THEN choice.error
                                  ELSE IF f = "none" THEN @
                                  ELSE ErrorOf(f)]
                  /\ calendar' = IF created
                                 THEN Append(calendar,
                                        [start |-> choice.slot.start,
                                         end |-> choice.slot.end,
                                         attendee |-> sched.candidate.email])
                                 ELSE calendar
                  /\ db' = IF updated
                           THEN UpdateCandidate(db, sched.candidate.id,
                                    ScheduledUpdates(choice.slot, event_id))
                           ELSE db
    /\ UNCHANGED <<drafts, rec, approval, scr, pipe, scan, parked, call>>

\* handle_not_interested_node; with no candidate, candidate.id raises inside
\* the try block and the text of that exception replaces the error slot
HandleNotInterested ==
    /\ sched.pc = "handle_not_interested"
    /\ IF sched.candidate = NoCandidate
       THEN /\ sched' = [sched EXCEPT !.pc = "end", !.handler = "handle_not_interested",
                                      !.failed = @ \cup {"handle_not_interested"},
                                      !.error = ErrNoneAttr]
            /\ db' = db
       ELSE \E f \in {"store", "slack", "none"} :
            \E posted \in BOOLEAN :
              LET updated == f # "store"
                  notified == f = "none" /\ posted
              IN  /\ sched' = [sched EXCEPT
                        !.pc = "end",
                        !.handler = "handle_not_interested",
                        !.updates = IF updated THEN @ + 1 ELSE @,
                        !.notified = IF notified THEN @ + 1 ELSE @,
                        !.failed = IF f = "none" THEN @
                                   ELSE @ \cup {"handle_not_interested"},
                        !.error = IF f = "none" THEN @ ELSE ErrorOf(f)]
                  /\ db' = IF updated
                           THEN UpdateCandidate(db, sched.candidate.id,
                                    NotInterestedUpdates)
                           ELSE db
    /\ UNCHANGED <<drafts, calendar, rec, approval, scr, pipe, scan, parked, call>>

\* process_candidate_reply after agent.invoke: raise on a non-empty error
\* slot, return {intent, status} otherwise
FinishReply ==
    /\ sched.pc = "end"
    /\ sched' = IF sched.error # ""
                THEN [sched EXCEPT !.pc = "done", !.outcome = "raised", !.raised = sched.error]
                ELSE [sched EXCEPT !.pc = "done", !.outcome = "returned"]
    /\ UNCHANGED <<db, drafts, calendar, rec, approval, scr, pipe, scan, parked, call>>

\* the caller has the result; the workflow state is discarded
DiscardReply ==
    /\ sched.pc = "done"
    /\ sched' = SchedulerIdle
    /\ UNCHANGED <<db, drafts, calendar, rec, approval, scr, pipe, scan, parked, call>>


(* -------------------------- outreach workflow ------------------------- *)
StartRecruiter(i) ==
    /\ Quiet
    /\ i \in DOMAIN db
    /\ drafts < MaxDrafts
    /\ rec' = RecruiterInitialState(Snapshot(db, i))
    /\ UNCHANGED <<db, drafts, calendar, sched, approval, scr, pipe, scan, parked, call>>

\* generate_email_node: subject and body are written only when all of it
\* succeeded
GenerateEmail ==
    /\ rec.pc = "generate_email"
    /\ \/ rec' = [rec EXCEPT !.email_subject = "subject", !.email_body = "body",
                             !.pc = "create_draft"]
       \/ rec' = [rec EXCEPT !.error = ErrLLM, !.pc = "create_draft",
                             !.failed = @ \cup {"generate_email"}]
    /\ UNCHANGED <<db, drafts, calendar, sched, approval, scr, pipe, scan, parked, call>>

\* variant: only a missing address stops it, an empty one does not
DraftBlockedNoneOnly(st) == st.candidate.email = None

\* the guard of create_draft_node: what stops it before the provider call
DraftBlocked(st) == ~Truthy(st.candidate.email)

\* create_draft_node; f is the collaborator call that raises, if any
CreateDraft ==
    /\ rec.pc = "create_draft"
    /\ IF DraftBlocked(rec)
       THEN /\ rec' = [rec EXCEPT !.error = ErrNoEmail, !.pc = "send_notification",
                                  !.failed = @ \cup {"create_draft"}]
            /\ UNCHANGED <<db, drafts>>
       ELSE \E f \in {"gmail", "store", "none"} :
              LET created == f # "gmail"
                  updated == f = "none"
                  draft_id == drafts + 1
              IN  /\ rec' = [rec EXCEPT
                        !.pc = "send_notification",
                        !.draft_id = IF created THEN draft_id ELSE @,
                        !.drafts_created = IF created THEN @ + 1 ELSE @,
                        !.draft = IF created
                                  THEN [to |-> rec.candidate.email,
                                        subject |-> rec.email_subject,
                                        body |-> rec.email_body]
                                  ELSE @,
                        !.updates = IF updated THEN @ + 1 ELSE @,
                        !.failed = IF f = "none" THEN @ ELSE @ \cup {"create_draft"},
                        !.error = IF f = "none" THEN @ ELSE ErrorOf(f)]
                  /\ drafts' = IF created THEN draft_id ELSE drafts
                  /\ db' = IF updated
                           THEN UpdateCandidate(db, rec.candidate.id,
                                    DraftUpdates(draft_id))
                           ELSE db
    /\ UNCHANGED <<calendar, sched, approval, scr, pipe, scan, parked, call>>

\* variant: a failed approval request is recorded like any other failure
NotifyErrorFatal(posted, err) == IF posted THEN err ELSE ErrSlack

\* the error slot after send_slack_notification_node: its except branch
\* logs and leaves the slot as it was
NotifyError(posted, err) == err

\* send_slack_notification_node: a failure is logged and nothing else;
\* the request is posted, returns False (no client, or SlackApiError caught
\* by the client) or raises into the except branch of the node
SendNotification ==
    /\ rec.pc = "send_notification"
    /\ \E request \in {"posted", "refused", "raised"} :
         LET posted == request = "posted"
         IN  rec' = [rec EXCEPT !.pc = "end",
                                !.requests = IF posted THEN @ + 1 ELSE @,
                                !.failed = IF request = "raised"
                                           THEN @ \cup {"send_notification"} ELSE @,
                                !.error = NotifyError(posted, @)]
    /\ UNCHANGED <<db, drafts, calendar, sched, approval, scr, pipe, scan, parked, call>>

\* run_recruiter after agent.invoke
FinishRecruiter ==
    /\ rec.pc = "end"
    /\ rec' = IF rec.error # ""
              THEN [rec EXCEPT !.pc = "done", !.outcome = "raised", !.raised = rec.error]
              ELSE [rec EXCEPT !.pc = "done", !.outcome = "returned"]
    /\ UNCHANGED <<db, drafts, calendar, sched, approval, scr, pipe, scan, parked, call>>

DiscardRecruiter ==
    /\ rec.pc = "done"
    /\ rec' = RecruiterIdle
    /\ UNCHANGED <<db, drafts, calendar, sched, approval, scr, pipe, scan, parked, call>>

(* --------------------------- approval action -------------------------- *)
\* variant: only a missing candidate stops the approval
ApprovalBlockedMissingOnly(rows, id) == id \notin DOMAIN rows

\* the guard of approve_and_send_email: no candidate, or no recorded draft
ApprovalBlocked(rows, id) ==
    \/ id \notin DOMAIN rows
    \/ rows[id].email_draft_id = NoId

\* approve_and_send_email; f is the collaborator call that raises, if any,
\* and error the text its except branch logs
ApproveAndSendEmail(id) ==
    /\ Quiet
    /\ id \in 1..(Len(db) + 1)
    /\ \E f \in {"get", "gmail", "store", "slack", "none"} :
         LET draft == IF id \in DOMAIN db THEN db[id].email_draft_id ELSE NoId
             passed == f # "get" /\ ~ApprovalBlocked(db, id)
             sent_ok == passed /\ f # "gmail"
             updated == sent_ok /\ f # "store"
             ok == updated /\ f # "slack"
             raised == f = "get" \/ (passed /\ f # "none")
         IN  /\ db' = IF updated
                      THEN UpdateCandidate(db, id, ApprovalUpdates)
                      ELSE db
             /\ approval' = [candidate_id |-> id,
                             result |-> IF ok THEN "True" ELSE "False",
                             sent_draft |-> IF sent_ok THEN draft ELSE NoId,
                             error |-> IF ~raised THEN ""
                                       ELSE IF f = "get" THEN ErrStore
                                       ELSE ErrorOf(f)]
    /\ UNCHANGED <<drafts, calendar, rec, sched, scr, pipe, scan, parked, call>>

\* the caller has the result of the approval action
DiscardApproval ==
    /\ approval.result # "none"
    /\ approval' = NoApproval
    /\ UNCHANGED <<db, drafts, calendar, rec, sched, scr, pipe, scan, parked, call>>

(* -------------------------- screening workflow ------------------------ *)
StartScreener(folder) ==
    /\ Quiet
    /\ Len(db) + Len(folder.pdf_files) <= MaxFiles
    /\ scr' = ScreenerInitialState(folder, db)
    /\ UNCHANGED <<db, drafts, calendar, rec, sched, approval, pipe, scan, parked, call>>

\* the entry parse_resumes_node appends for a file that parsed
ResumeItem(file) ==
    [ file_name |-> file.name,
      resume_data |-> [name |-> file.name, email |-> "A@x", fit |-> file.fit] ]

\* variant: the loop ends at the first file that fails to parse
ParsedResumesUntilFailure(files) ==
    LET bad == {i \in DOMAIN files : ~files[i].parses}
        n == IF bad = {} THEN Len(files)
             ELSE (CHOOSE i \in bad : \A j \in bad : i <= j) - 1
    IN  [i \in 1..n |-> ResumeItem(files[i])]

\* the loop of parse_resumes_node: a file that fails is skipped
ParsedResumes(files) ==
    LET ok == SelectSeq(files, LAMBDA file : file.parses)
    IN  [i \in 1..Len(ok) |-> ResumeItem(ok[i])]

\* parse_resumes_node
ParseResumes ==
    /\ scr.pc = "parse_resumes"
    /\ scr' = IF ~scr.resume_folder.exists
              THEN [scr EXCEPT !.error = ErrFolder, !.pc = "calculate_scores",
                               !.failed = @ \cup {"parse_resumes"}]
              ELSE [scr EXCEPT
                      !.processed_resumes = ParsedResumes(scr.resume_folder.pdf_files),
                      !.pc = "calculate_scores"]
    /\ UNCHANGED <<db, drafts, calendar, rec, sched, approval, pipe, scan, parked, call>>

\* variant: a score equal to the threshold does not qualify
QualifiesAbove(fit_score) == fit_score > FitScoreThreshold

\* the test of calculate_scores_node
Qualifies(fit_score) == fit_score >= FitScoreThreshold

\* the Candidate calculate_scores_node builds: not saved yet, so without id
ScreenedCandidate(resume_data) ==
    [id |-> NoId, name |-> resume_data.name, fit_score |-> resume_data.fit]
        @@ NewCandidate(resume_data.email)

\* the loop of calculate_scores_node: a resume whose scoring raises is skipped
QualifiedCandidates(processed) ==
    LET q == SelectSeq(processed,
                 LAMBDA item : /\ item.resume_data.fit # NoScore
                               /\ Qualifies(item.resume_data.fit))
    IN  [i \in 1..Len(q) |-> ScreenedCandidate(q[i].resume_data)]

\* calculate_scores_node: it runs whatever the error slot holds
CalculateScores ==
    /\ scr.pc = "calculate_scores"
    /\ scr' = [scr EXCEPT
                 !.qualified_candidates = QualifiedCandidates(scr.processed_resumes),
                 !.pc = "save_to_database"]
    /\ UNCHANGED <<db, drafts, calendar, rec, sched, approval, pipe, scan, parked, call>>

\* variant: save_candidate leaves the caller's object as it was
SavedCandidateNoId(cand, id) == cand

\* save_candidate writes the store's id into the object it was given
SavedCandidate(cand, id) == [cand EXCEPT !.id = id]

\* variant: a failing save undoes the saves before it
SavedCountRollback(n, k) == IF k <= n THEN 0 ELSE n

\* how many of n candidates save_to_database_node saved when call k raised:
\* k = 0 is DatabaseManager() raising, k = n + 1 is no call raising
SavedCount(n, k) == IF k = 0 THEN 0 ELSE IF k <= n THEN k - 1 ELSE n

\* save_to_database_node; k is the call that raises (see SavedCount) and
\* inserted tells whether the raising save_candidate had inserted its row
\* (it raises after the insert when the response cannot be read)
SaveToDatabase ==
    /\ scr.pc = "save_to_database"
    /\ LET cands == scr.qualified_candidates
           n == Len(cands)
       IN  \E k \in 0..(n + 1) : \E inserted \in BOOLEAN :
             /\ inserted => k \in 1..n
             /\ LET saved == SavedCount(n, k)
                     stored == IF inserted THEN saved + 1 ELSE saved
                 IN  /\ db' = db \o [j \in 1..stored |-> StoredRow(cands[j])]
                     /\ scr' = [scr EXCEPT
                           !.qualified_candidates =
                               [j \in 1..n |->
                                   IF j <= stored
                                   THEN SavedCandidate(cands[j], Len(db) + j)
                                   ELSE cands[j]],
                           !.error = IF k <= n THEN ErrStore ELSE @,
                           !.failed = IF k <= n THEN @ \cup {"save_to_database"} ELSE @,
                           !.save_fault = k,
                           !.pc = "end"]
    /\ UNCHANGED <<drafts, calendar, rec, sched, approval, pipe, scan, parked, call>>

\* run_screener after agent.invoke
FinishScreener ==
    /\ scr.pc = "end"
    /\ scr' = IF scr.error # ""
              THEN [scr EXCEPT !.pc = "done", !.outcome = "raised", !.raised = scr.error]
              ELSE [scr EXCEPT !.pc = "done", !.outcome = "returned",
                               !.result = scr.qualified_candidates]
    /\ UNCHANGED <<db, drafts, calendar, rec, sched, approval, pipe, scan, parked, call>>

DiscardScreener ==
    /\ scr.pc = "done"
    /\ scr' = ScreenerIdle
    /\ UNCHANGED <<db, drafts, calendar, rec, sched, approval, pipe, scan, parked, call>>

(* ------------------------------ pipeline ------------------------------ *)
\* run_full_pipeline begins with run_screener
StartPipeline(folder, auto_draft) ==
    /\ Quiet
    /\ Len(db) + Len(folder.pdf_files) <= MaxFiles
    /\ pipe' = PipelineInitialState(auto_draft, drafts)
    /\ scr' = ScreenerInitialState(folder, db)
    /\ UNCHANGED <<db, drafts, calendar, rec, sched, approval, scan, parked, call>>

\* variant: a failed screening is logged and the run goes on
AfterScreeningTolerant(outcome) == "outreach"

\* what run_full_pipeline does with the end of run_screener: its exception
\* reaches the outer except branch, which raises it again
AfterScreening(outcome) == IF outcome = "raised" THEN "raise" ELSE "outreach"

\* variant: the flag is not consulted
OutreachWantedAlways(auto_draft, cands) == cands # <<>>

\* the guard of phase 2
OutreachWanted(auto_draft, cands) == auto_draft /\ cands # <<>>

\* run_screener has ended
PipelineScreened ==
    /\ pipe.pc = "screening"
    /\ scr.pc = "done"
    /\ pipe' = IF AfterScreening(scr.outcome) = "raise"
               THEN [pipe EXCEPT !.pc = "done", !.outcome = "raised",
                                 !.raised = scr.raised]
               ELSE [pipe EXCEPT
                       !.qualified_candidates = scr.result,
                       !.pc = IF OutreachWanted(pipe.auto_draft, scr.result)
                              THEN "outreach" ELSE "end"]
    /\ UNCHANGED <<db, drafts, calendar, rec, sched, approval, scr, scan, parked, call>>

\* the loop of phase 2 calls run_recruiter for the next candidate
PipelineRunRecruiter ==
    /\ pipe.pc = "outreach"
    /\ rec.pc = "idle"
    /\ pipe.next \in DOMAIN pipe.qualified_candidates
    /\ rec' = RecruiterInitialState(pipe.qualified_candidates[pipe.next])
    /\ pipe' = [pipe EXCEPT !.outreach_runs =
                    Append(@, pipe.qualified_candidates[pipe.next].name)]
    /\ UNCHANGED <<db, drafts, calendar, sched, approval, scr, scan, parked, call>>

\* variant: the loop ends at the first candidate whose outreach failed
NextCandidateUntilFailure(i, n, outcome) ==
    IF outcome = "raised" THEN n + 1 ELSE i + 1

\* the loop of phase 2 after candidate i of n: its except branch continues
NextCandidate(i, n, outcome) == i + 1

\* run_recruiter has ended: its result is appended, its exception logged
PipelineCollect ==
    /\ pipe.pc = "outreach"
    /\ rec.pc = "done"
    /\ LET n == Len(pipe.qualified_candidates)
           next == NextCandidate(pipe.next, n, rec.outcome)
       IN  pipe' = [pipe EXCEPT
                     !.drafts_created =
                         IF rec.outcome = "returned"
                         THEN Append(@, [candidate_name |-> rec.candidate.name,
                                         draft_id |-> rec.draft_id])
                         ELSE @,
                     !.outreach_outcomes = Append(@, rec.outcome),
                     !.next = next,
                     !.pc = IF next > n THEN "end" ELSE "outreach"]
    /\ rec' = RecruiterIdle
    /\ UNCHANGED <<db, drafts, calendar, sched, approval, scr, scan, parked, call>>

\* run_full_pipeline returns results
PipelineReturn ==
    /\ pipe.pc = "end"
    /\ pipe' = [pipe EXCEPT !.pc = "done", !.outcome = "returned"]
    /\ UNCHANGED <<db, drafts, calendar, rec, sched, approval, scr, scan, parked, call>>

DiscardPipeline ==
    /\ pipe.pc = "done"
    /\ pipe' = PipelineIdle
    /\ scr' = ScreenerIdle
    /\ UNCHANGED <<db, drafts, calendar, rec, sched, approval, scan, parked, call>>

(* ------------------- two reply-routing instances ---------------------- *)
\* process_candidate_reply is called twice for the same sender, by callers
\* that do not wait for each other; the race is run from a store and a
\* calendar no earlier race has changed
StartRace(text, other_text) ==
    /\ Quiet
    /\ calendar = <<>>
    /\ CandidatesByStatus(db, "contacted") = DOMAIN db
    /\ sched' = SchedulerInitialState("a@x", text)
    /\ parked' = SchedulerInitialState("a@x", other_text)
    /\ UNCHANGED <<db, drafts, calendar, rec, approval, scr, pipe, scan, call>>

\* between two nodes the other instance gets to run: sched is the instance
\* whose node runs next, nothing in the code orders the two
Switch ==
    /\ sched.pc # "idle"
    /\ parked.pc \notin {"idle", "done"}
    /\ sched' = parked
    /\ parked' = sched
    /\ UNCHANGED <<db, drafts, calendar, rec, approval, scr, pipe, scan, call>>

\* both callers have their results
DiscardRace ==
    /\ sched.pc = "done"
    /\ parked.pc = "done"
    /\ sched' = SchedulerIdle
    /\ parked' = SchedulerIdle
    /\ UNCHANGED <<db, drafts, calendar, rec, approval, scr, pipe, scan, call>>

(* ------------------------------ inbox scan ---------------------------- *)
\* what a message of the inbox is to monitor_inbox: its From address (None
\* without that header) and its plain text ("" without any)
InboxMessages ==
    { [from |-> "A@x", text |-> <<"x">>],
      [from |-> "A@x", text |-> <<"2">>],
      [from |-> "A@x", text |-> <<>>],
      [from |-> "b@x", text |-> <<"x">>],
      [from |-> None, text |-> <<"x">>] }

Inboxes == UNION {[1..n -> InboxMessages] : n \in 0..MaxInbox}

\* the keys of candidate_emails: contacted and interested candidates with
\* an address, in lower case
CandidateEmails(rows) ==
    {Lower(rows[i].email) :
        i \in {j \in CandidatesByStatus(rows, "contacted")
                     \cup CandidatesByStatus(rows, "interested") :
                 Truthy(rows[j].email)}}

\* monitor_inbox up to its loop; f is the listing that raises, if any.  A
\* scan starts while the calendar holds up to MaxEvents events, so that a
\* later scan can add an event to those of the scans before it
StartScan(inbox) ==
    /\ Quiet
    /\ Len(calendar) <= MaxEvents
    /\ \E f \in {"gmail", "store", "none"} :
         scan' = IF f = "none"
                 THEN ScanInitialState(inbox, CandidateEmails(db))
                 ELSE [ScanInitialState(<<>>, {}) EXCEPT !.pc = "end",
                                                        !.failure = ErrorOf(f)]
    /\ UNCHANGED <<db, drafts, calendar, rec, sched, approval, scr, pipe, parked, call>>

\* does the loop pass this message to process_candidate_reply
IsCandidateReply(message, candidate_emails) ==
    /\ message.from # None
    /\ Lower(message.from) \in candidate_emails
    /\ message.text # <<>>

\* one turn of the loop: the message is skipped or process_candidate_reply
\* is called for it; after the last message monitor_inbox is through
ScanMessage ==
    /\ scan.pc = "loop"
    /\ sched.pc = "idle"
    /\ IF scan.next \notin DOMAIN scan.messages
       THEN /\ scan' = [scan EXCEPT !.pc = "end"]
            /\ UNCHANGED sched
       ELSE LET message == scan.messages[scan.next]
            IN  IF IsCandidateReply(message, scan.candidate_emails)
                THEN /\ sched' = SchedulerInitialState(Lower(message.from), message.text)
                     /\ scan' = [scan EXCEPT !.handled = @ + 1]
                ELSE /\ scan' = [scan EXCEPT !.next = @ + 1]
                     /\ UNCHANGED sched
    /\ UNCHANGED <<db, drafts, calendar, rec, approval, scr, pipe, parked, call>>

\* variant: the failure of one message is logged and the loop goes on
LoopGoesOnAlways(outcome) == TRUE

\* does the loop of monitor_inbox reach its next message after this end of
\* process_candidate_reply: the call is not guarded inside the loop
LoopGoesOn(outcome) == outcome # "raised"

\* process_candidate_reply has ended: its exception ends the loop in the
\* except branch of monitor_inbox
ScanCollect ==
    /\ scan.pc = "loop"
    /\ sched.pc = "done"
    /\ scan' = IF LoopGoesOn(sched.outcome)
               THEN [scan EXCEPT !.next = @ + 1]
               ELSE [scan EXCEPT !.pc = "end", !.failure = sched.raised]
    /\ sched' = SchedulerIdle
    /\ UNCHANGED <<db, drafts, calendar, rec, approval, scr, pipe, parked, call>>

\* the except branch of monitor_inbox logs the exception and returns
MonitorInboxRaises(failure) == FALSE

\* main: sys.exit(1) when the command function raised
ExitCode(raised) == IF raised THEN 1 ELSE 0

\* monitor_inbox returns to run_inbox_monitoring, cmd_monitor and main
FinishScan ==
    /\ scan.pc = "end"
    /\ scan' = [scan EXCEPT !.pc = "exited",
                            !.exit_code = ExitCode(MonitorInboxRaises(scan.failure))]
    /\ UNCHANGED <<db, drafts, calendar, rec, sched, approval, scr, pipe, parked, call>>

DiscardScan ==
    /\ scan.pc = "exited"
    /\ scan' = ScanIdle
    /\ UNCHANGED <<db, drafts, calendar, rec, sched, approval, scr, pipe, parked, call>>

(* ------------------------------- scoring ------------------------------ *)
\* the words of the model's documents: "the" is an English stop word, "c"
\* has one character
RawWords == {"Py", "py", "go", "the", "c"}

\* lowercase=True
LowerWord(w) == IF w = "Py" THEN "py" ELSE w

\* the default token_pattern keeps words of two or more characters
IsToken(w) == w # "c"

\* stop_words='english'
StopWords == {"the"}

\* the tokens of a document before the stop words are removed
RawTokens(text) ==
    SelectSeq([i \in DOMAIN text |-> LowerWord(text[i])], IsToken)

\* the tokens the n-grams are built from
Tokens(text) == SelectSeq(RawTokens(text), LAMBDA w : w \notin StopWords)

\* ngram_range=(1, 2): the unigrams and bigrams of a token sequence
TermSet(tokens) ==
    {<<tokens[i]>> : i \in DOMAIN tokens}
        \cup {<<tokens[i], tokens[i + 1]>> : i \in 1..(Len(tokens) - 1)}

TermCount(term, tokens) ==
    IF Len(term) = 1
    THEN Cardinality({i \in DOMAIN tokens : tokens[i] = term[1]})
    ELSE Cardinality({i \in 1..(Len(tokens) - 1) :
                         tokens[i] = term[1] /\ tokens[i + 1] = term[2]})

\* the square of the smoothed idf of a term found in df of the 2 documents,
\* in fortieths: (ln(3 / (1 + df)) + 1)^2 is 1 for df = 2, 1.975 for df = 1
IdfSquared(df) == IF df = 2 THEN 40 ELSE 79

RECURSIVE SumOver(_, _)
SumOver(f, S) ==
    IF S = {} THEN 0
    ELSE LET x == CHOOSE y \in S : TRUE IN f[x] + SumOver(f, S \ {x})

Isqrt(n) == CHOOSE r \in 0..n : r * r <= n /\ (r + 1) * (r + 1) > n

\* calculate_fit_score from the two documents on: the vectorizer raises
\* ValueError on an empty vocabulary; the score is the cosine of the tf-idf
\* vectors in whole percent, 0 when a vector is zero
CalculateFitScore(resume_text, jd_text) ==
    LET a == Tokens(resume_text)
        b == Tokens(jd_text)
        vocabulary == TermSet(a) \cup TermSet(b)
        df(t) == IF t \in TermSet(a) /\ t \in TermSet(b) THEN 2 ELSE 1
        dot == SumOver([t \in vocabulary |->
                          TermCount(t, a) * TermCount(t, b) * IdfSquared(df(t))],
                       vocabulary)
        na == SumOver([t \in vocabulary |->
                          TermCount(t, a) * TermCount(t, a) * IdfSquared(df(t))],
                      vocabulary)
        nb == SumOver([t \in vocabulary |->
                          TermCount(t, b) * TermCount(t, b) * IdfSquared(df(t))],
                      vocabulary)
        percent == (100 * dot) \div Isqrt(na * nb)
    IN  IF vocabulary = {}
        THEN [raised |-> TRUE, fit_score |-> NoScore]
        ELSE [raised |-> FALSE,
              fit_score |-> IF na * nb = 0 THEN 0
                            ELSE IF percent > 100 THEN 100 ELSE percent]

Texts == UNION {[1..n -> RawWords] : n \in 0..MaxWords}

\* total_years_experience is None
NoYears == -1

\* f"{total_years_experience} years experience" of an Optional[float]
YearsText(n) ==
    IF n = 0 THEN "0.0 years experience" ELSE "5.0 years experience"

\* the parts one experience entry contributes
ExperienceParts(exp) ==
    <<exp.role, exp.company>>
        \o (IF Truthy(exp.description) THEN <<exp.description>> ELSE <<>>)
        \o exp.projects

EducationParts(edu) == <<edu.degree, edu.field, edu.institution>>

RECURSIVE Flatten(_)
Flatten(lists) ==
    IF lists = <<>> THEN <<>> ELSE Head(lists) \o Flatten(Tail(lists))

\* _resume_to_text: the parts in order; the text is their join with " "
ResumeToText(resume_data) ==
    LET all_skills == resume_data.skills.technical_skills
                          \o resume_data.skills.soft_skills
                          \o resume_data.skills.certifications
    IN  all_skills \o all_skills \o all_skills
        \o Flatten([i \in DOMAIN resume_data.experience |->
                        ExperienceParts(resume_data.experience[i])])
        \o Flatten([i \in DOMAIN resume_data.education |->
                        EducationParts(resume_data.education[i])])
        \o (IF Truthy(resume_data.summary) THEN <<resume_data.summary>> ELSE <<>>)
        \o (IF resume_data.total_years_experience \notin {NoYears, 0}
            THEN <<YearsText(resume_data.total_years_experience)>> ELSE <<>>)

\* the resumes of the model
Resumes ==
    [ skills : [ technical_skills : {<<>>, <<"py", "go">>},
                 soft_skills : {<<>>, <<"team">>},
                 certifications : {<<>>, <<"aws">>} ],
      experience :
          { <<>>,
            <<[role |-> "dev", company |-> "acme", description |-> None,
               projects |-> <<"p1", "p2">>]>>,
            <<[role |-> "dev", company |-> "acme", description |-> "",
               projects |-> <<>>],
              [role |-> "lead", company |-> "corp", description |-> "built",
               projects |-> <<"p3">>]>> },
      education : { <<>>, <<[degree |-> "bsc", field |-> "cs", institution |-> "mit"]>> },
      summary : {None, "", "summary"},
      total_years_experience : {NoYears, 0, 5} ]

(* ---------------------------- pure functions -------------------------- *)
\* a call of calculate_fit_score for a resume and a job with these documents
CallCalculateFitScore(resume_text, jd_text) ==
    /\ call.fn = "none"
    /\ call' = [fn |-> "calculate_fit_score", resume_text |-> resume_text,
                jd_text |-> jd_text,
                result |-> CalculateFitScore(resume_text, jd_text)]
    /\ UNCHANGED <<db, drafts, calendar, rec, sched, approval, scr, pipe, scan, parked>>

\* a call of _resume_to_text
CallResumeToText(resume_data) ==
    /\ call.fn = "none"
    /\ call' = [fn |-> "_resume_to_text", resume_data |-> resume_data,
                result |-> ResumeToText(resume_data)]
    /\ UNCHANGED <<db, drafts, calendar, rec, sched, approval, scr, pipe, scan, parked>>

\* a call of CalendarClient.get_free_slots
CallGetFreeSlots(now, days_ahead, duration, query_ok, busy_times) ==
    /\ call.fn = "none"
    /\ call' = [fn |-> "get_free_slots", now |-> now, days_ahead |-> days_ahead,
                duration |-> duration, query_ok |-> query_ok,
                busy_times |-> busy_times,
                result |-> GetFreeSlots(now, days_ahead, duration, query_ok, busy_times)]
    /\ UNCHANGED <<db, drafts, calendar, rec, sched, approval, scr, pipe, scan, parked>>

\* the caller has the result
DiscardCall ==
    /\ call.fn # "none"
    /\ call' = NoCall
    /\ UNCHANGED <<db, drafts, calendar, rec, sched, approval, scr, pipe, scan, parked>>

(* --------------------------- specification ---------------------------- *)
Next ==
    \/ \E email \in CandEmails : SaveCandidate(email)
    \/ \E i \in 1..MaxCands : StartRecruiter(i)
    \/ GenerateEmail
    \/ CreateDraft
    \/ SendNotification
    \/ FinishRecruiter
    \/ DiscardRecruiter
    \/ \E id \in 1..(MaxCands + 1) : ApproveAndSendEmail(id)
    \/ DiscardApproval
    \/ \E email \in SenderEmails : \E text \in Messages : StartReply(email, text)
    \/ DetectIntent
    \/ GetCandidate
    \/ HandleInterested
    \/ HandleScheduleTime
    \/ HandleNotInterested
    \/ FinishReply
    \/ DiscardReply

Spec == Init /\ [][Next]_vars


(* ----------- reply-routing alone, over every short reply text --------- *)
\* a candidate whose outreach was drafted and approved
ContactedCandidate ==
    [NewCandidate("A@x") EXCEPT !.status = "contacted", !.email_sent = TRUE,
                                !.email_draft_id = 1]

InitReplies ==
    /\ db = <<ContactedCandidate>>
    /\ drafts = 1
    /\ calendar = <<>>
    /\ rec = RecruiterIdle
    /\ sched = SchedulerIdle
    /\ approval = NoApproval
    /\ scr = ScreenerIdle
    /\ pipe = PipelineIdle
    /\ scan = ScanIdle
    /\ parked = SchedulerIdle
    /\ call = NoCall

NextReplies ==
    \/ \E text \in AllTexts : StartReply("a@x", text)
    \/ DetectIntent
    \/ GetCandidate
    \/ HandleInterested
    \/ HandleScheduleTime
    \/ HandleNotInterested
    \/ FinishReply
    \/ DiscardReply

SpecReplies == InitReplies /\ [][NextReplies]_vars

(* the screening workflow alone, over every resume folder *)
NextScreening ==
    \/ \E folder \in ResumeFolders : StartScreener(folder)
    \/ ParseResumes
    \/ CalculateScores
    \/ SaveToDatabase
    \/ FinishScreener
    \/ DiscardScreener

SpecScreening == Init /\ [][NextScreening]_vars

(* the pipeline: screening, then outreach for each qualifying candidate;
   its folders hold resumes that parse and score next to the threshold *)
PipelineFolders ==
    {folder \in ResumeFolders :
        \A i \in DOMAIN folder.pdf_files :
            /\ folder.pdf_files[i].parses
            /\ folder.pdf_files[i].fit \in {FitScoreThreshold - 1, FitScoreThreshold}}

NextPipeline ==
    \/ \E folder \in PipelineFolders : \E auto_draft \in BOOLEAN :
          StartPipeline(folder, auto_draft)
    \/ ParseResumes
    \/ CalculateScores
    \/ SaveToDatabase
    \/ FinishScreener
    \/ PipelineScreened
    \/ PipelineRunRecruiter
    \/ GenerateEmail
    \/ CreateDraft
    \/ SendNotification
    \/ FinishRecruiter
    \/ PipelineCollect
    \/ PipelineReturn
    \/ DiscardPipeline

SpecPipeline == Init /\ [][NextPipeline]_vars

(* two reply-routing instances for the one contacted candidate *)
NextRace ==
    \/ \E text \in Messages : \E other_text \in Messages : StartRace(text, other_text)
    \/ Switch
    \/ DetectIntent
    \/ GetCandidate
    \/ HandleInterested
    \/ HandleScheduleTime
    \/ HandleNotInterested
    \/ FinishReply
    \/ DiscardRace

SpecRace == InitReplies /\ [][NextRace]_vars

(* the scan-inbox command over a store with one contacted candidate *)
NextScan ==
    \/ \E inbox \in Inboxes : StartScan(inbox)
    \/ ScanMessage
    \/ DetectIntent
    \/ GetCandidate
    \/ HandleInterested
    \/ HandleScheduleTime
    \/ HandleNotInterested
    \/ FinishReply
    \/ ScanCollect
    \/ FinishScan
    \/ DiscardScan

SpecScan == InitReplies /\ [][NextScan]_vars

(* scan-inbox commands and approval actions, in any order, over a store with
   one contacted candidate *)
NextInbox ==
    \/ \E inbox \in Inboxes : StartScan(inbox)
    \/ ScanMessage
    \/ DetectIntent
    \/ GetCandidate
    \/ HandleInterested
    \/ HandleScheduleTime
    \/ HandleNotInterested
    \/ FinishReply
    \/ ScanCollect
    \/ FinishScan
    \/ DiscardScan
    \/ \E id \in 1..(MaxCands + 1) : ApproveAndSendEmail(id)
    \/ DiscardApproval

SpecInbox == InitReplies /\ [][NextInbox]_vars

(* the scoring functions over every document and resume of the model *)
NextScoring ==
    \/ \E resume_text \in Texts : \E jd_text \in Texts :
          CallCalculateFitScore(resume_text, jd_text)
    \/ \E resume_data \in Resumes : CallResumeToText(resume_data)
    \/ DiscardCall

SpecScoring == Init /\ [][NextScoring]_vars

(* get_free_slots over every input *)
NextSlots ==
    \/ \E now \in Nows : \E days_ahead \in 0..MaxDaysAhead :
       \E duration \in Durations : \E query_ok \in BOOLEAN :
       \E busy_times \in BusyLists :
          CallGetFreeSlots(now, days_ahead, duration, query_ok, busy_times)
    \/ DiscardCall

SpecSlots == Init /\ [][NextSlots]_vars

(* the three workflows and the approval action over one store: the rows
   come from screening runs over folders of at most one file *)
WorkflowFolders == {folder \in ResumeFolders : Len(folder.pdf_files) <= 1}

\* run_screener, while the store holds fewer than MaxCands rows
StartScreenerSmallStore(folder) ==
    /\ Len(db) < MaxCands
    /\ StartScreener(folder)

NextWorkflows ==
    \/ \E folder \in WorkflowFolders : StartScreenerSmallStore(folder)
    \/ ParseResumes
    \/ CalculateScores
    \/ SaveToDatabase
    \/ FinishScreener
    \/ DiscardScreener
    \/ \E i \in 1..MaxCands : StartRecruiter(i)
    \/ GenerateEmail
    \/ CreateDraft
    \/ SendNotification
    \/ FinishRecruiter
    \/ DiscardRecruiter
    \/ \E id \in 1..(MaxCands + 1) : ApproveAndSendEmail(id)
    \/ DiscardApproval
    \/ \E email \in SenderEmails : \E text \in Messages : StartReply(email, text)
    \/ DetectIntent
    \/ GetCandidate
    \/ HandleInterested
    \/ HandleScheduleTime
    \/ HandleNotInterested
    \/ FinishReply
    \/ DiscardReply

SpecWorkflows == Init /\ [][NextWorkflows]_vars


(* ============================== claims ================================ *)
SchedFinished == sched.pc = "done"
NoReplyEffects == sched.emails = 0 /\ sched.events = 0 /\ sched.updates = 0
\* the stored row of the candidate the reply-routing instance found
FoundRow == db[sched.candidate.id]

\* C1: every change of a candidate's status is one of screened->contacted,
\* contacted->interested, interested->scheduled, contacted->rejected,
\* interested->rejected; no operation moves a status backwards or skips a stage.
AllowedTransitions ==
    { <<"screened", "contacted">>, <<"contacted", "interested">>,
      <<"interested", "scheduled">>, <<"contacted", "rejected">>,
      <<"interested", "rejected">> }

C1_StatusTransitions ==
    [][\A i \in DOMAIN db :
          db'[i].status # db[i].status
            => <<db[i].status, db'[i].status>> \in AllowedTransitions]_vars

\* C2: when the store answers, LookupCandidate finds a candidate whenever a
\* stored candidate with status contacted or interested has the sender's
\* address ignoring case.
SenderIsStored ==
    \E i \in DOMAIN db :
        /\ db[i].status \in {"contacted", "interested"}
        /\ Truthy(db[i].email)
        /\ Lower(db[i].email) = Lower(sched.candidate_email)

C2_LookupFindsSender ==
    (sched.lookup = "not_found") => ~SenderIsStored

\* C3: when LookupCandidate finds no candidate, the workflow reports failure
\* with the candidate-not-found error in the error slot and has no email,
\* calendar or store effect, whatever the intent.
C3_NotFoundIsReported ==
    (SchedFinished /\ sched.lookup = "not_found")
        => /\ sched.outcome = "raised"
           /\ sched.error = ErrNotFound
           /\ NoReplyEffects

\* C4 (as claimed): with an intent outside the three, the workflow ends with
\* no handler invoked, no side effect and no error: it returns normally.
C4_UnknownIntentReturns ==
    (SchedFinished /\ sched.intent = "other")
        => /\ sched.handler = ""
           /\ NoReplyEffects
           /\ sched.error = ""
           /\ sched.outcome = "returned"

\* C4 (amended): with an intent outside the three, the workflow ends with no
\* handler invoked and no side effect; it returns normally when the lookup
\* found the candidate and raises with the lookup's error otherwise.
C4_UnknownIntentNoRoute ==
    (SchedFinished /\ sched.intent = "other")
        => /\ sched.handler = ""
           /\ NoReplyEffects
           /\ (sched.lookup = "found" => sched.error = "" /\ sched.outcome = "returned")
           /\ (sched.lookup = "not_found" =>
                  sched.outcome = "raised" /\ sched.raised = ErrNotFound)
           /\ (sched.lookup = "failed" =>
                  sched.outcome = "raised" /\ sched.raised = ErrStore)

C4_Witness ==
    /\ SchedFinished
    /\ sched.intent = "other"
    /\ sched.lookup = "found"
    /\ sched.outcome = "returned"

\* C5 (as claimed): for a found candidate and intent not_interested the
\* workflow ends with status rejected, reply_received true and no email sent.
C5_DeclineAlwaysRejects ==
    (SchedFinished /\ sched.lookup = "found" /\ sched.intent = "not_interested")
        => /\ FoundRow.status = "rejected"
           /\ FoundRow.reply_received
           /\ sched.emails = 0

\* C5 (amended): for a found candidate and intent not_interested the workflow
\* sends no email; it ends with status rejected and reply_received true when
\* the store update succeeds, and with the error slot set, a raise and the
\* candidate unchanged when the store update fails.
C5_DeclineRejects ==
    (SchedFinished /\ sched.lookup = "found" /\ sched.intent = "not_interested")
        => /\ sched.emails = 0
           /\ sched.events = 0
           /\ sched.handler = "handle_not_interested"
           /\ sched.updates \in {0, 1}
           /\ (sched.updates = 1 =>
                  /\ FoundRow.status = "rejected"
                  /\ FoundRow.reply_received
                  /\ FoundRow = [StoredRow(sched.candidate) EXCEPT
                                    !.status = "rejected", !.reply_received = TRUE])
           /\ (sched.updates = 0 =>
                  /\ sched.error = ErrStore
                  /\ sched.outcome = "raised"
                  /\ FoundRow = StoredRow(sched.candidate))
           /\ (sched.error = "" => sched.updates = 1)

C5_Witness ==
    /\ SchedFinished
    /\ sched.lookup = "found"
    /\ sched.intent = "not_interested"
    /\ sched.updates = 1
    /\ FoundRow.status = "rejected"

\* C6 (as claimed): for a found candidate and intent interested the workflow
\* ends with status interested, reply_received true and exactly one email sent.
C6_InterestedAlwaysMails ==
    (SchedFinished /\ sched.lookup = "found" /\ sched.intent = "interested")
        => /\ FoundRow.status = "interested"
           /\ FoundRow.reply_received
           /\ sched.emails = 1

\* C6 (amended): for a found candidate and intent interested the workflow sends
\* at most one email; when the calendar fetch, the send and the store update
\* succeed it ends with status interested, reply_received true and exactly one
\* email sent; when one of them fails the error slot is set, the workflow
\* raises and the candidate is unchanged.
C6_InterestedMails ==
    (SchedFinished /\ sched.lookup = "found" /\ sched.intent = "interested")
        => /\ sched.emails \in {0, 1}
           /\ sched.events = 0
           /\ sched.handler = "handle_interested"
           /\ sched.updates \in {0, 1}
           /\ (sched.updates = 1 =>
                  /\ sched.emails = 1
                  /\ FoundRow.status = "interested"
                  /\ FoundRow.reply_received
                  /\ FoundRow = [StoredRow(sched.candidate) EXCEPT
                                    !.status = "interested", !.reply_received = TRUE])
           /\ (sched.updates = 0 =>
                  /\ sched.error \in {ErrCalendar, ErrGmail, ErrStore}
                  /\ sched.outcome = "raised"
                  /\ FoundRow = StoredRow(sched.candidate))
           /\ (sched.error = "" => sched.updates = 1)

C6_Witness ==
    /\ SchedFinished
    /\ sched.lookup = "found"
    /\ sched.intent = "interested"
    /\ sched.emails = 1
    /\ FoundRow.status = "interested"
    /\ sched.outcome = "returned"


\* positions of the reply text holding a digit 1..3 that stands alone: no
\* letter, digit or underscore right before or right after it
StandalonePositions(text) ==
    {i \in 1..Len(text) :
        /\ DigitVal(text[i]) \in 1..3
        /\ (i > 1 => text[i - 1] = " ")
        /\ (i < Len(text) => text[i + 1] = " ")}

StandaloneDigits(text) == {DigitVal(text[i]) : i \in StandalonePositions(text)}

\* the leftmost standalone digit of the text, 0 when there is none
LeftmostDigit(text) ==
    IF StandalonePositions(text) = {} THEN 0
    ELSE DigitVal(text[CHOOSE i \in StandalonePositions(text) :
                            \A j \in StandalonePositions(text) : i <= j])

\* a ScheduleHandler run that fetched n >= 1 slots
ScheduleFetched ==
    /\ sched.pc \in {"end", "done"}
    /\ sched.handler = "handle_schedule_time"
    /\ Len(sched.fetched_slots) >= 1

ChoiceErrors == {ErrNoSlots, ErrIndex}

\* C7 (as claimed): with n >= 1 fetched slots, a standalone digit k <= n in
\* the reply selects the k-th slot, no such digit selects the first slot, and
\* a digit k > n selects the first slot without an error.
C7_AnyDigitSelects ==
    ScheduleFetched =>
        LET text == sched.message_text
            slots == sched.fetched_slots
        IN  /\ \A k \in StandaloneDigits(text) :
                  k <= Len(slots) => sched.chosen_slot = slots[k]
            /\ StandaloneDigits(text) = {} => sched.chosen_slot = slots[1]
            /\ \A k \in StandaloneDigits(text) :
                  k > Len(slots) =>
                     sched.chosen_slot = slots[1] /\ sched.error \notin ChoiceErrors

\* C7 (amended): with n >= 1 fetched slots and k the leftmost standalone digit
\* 1..3 of the reply: k <= n selects the k-th slot, no such digit selects the
\* first slot, and k > n selects the first slot without an error.
C7_LeftmostDigitSelects ==
    ScheduleFetched =>
        LET k == LeftmostDigit(sched.message_text)
            slots == sched.fetched_slots
        IN  /\ sched.error \notin ChoiceErrors
            /\ (k \in 1..Len(slots) => sched.chosen_slot = slots[k])
            /\ (k = 0 => sched.chosen_slot = slots[1])
            /\ (k > Len(slots) => sched.chosen_slot = slots[1])

C7_Witness ==
    /\ ScheduleFetched
    /\ sched.message_text = <<"3", " ", "2">>
    /\ Len(sched.fetched_slots) = 2
    /\ sched.chosen_slot = sched.fetched_slots[1]
    /\ sched.error = ""

\* C8: a ScheduleHandler run that completes without error creates exactly one
\* calendar event with the start and end of the chosen slot and leaves the
\* candidate scheduled, with interview_scheduled true, interview_time the
\* start of the chosen slot and calendar_event_id the id of that event.
ScheduleCompleted ==
    /\ sched.pc \in {"end", "done"}
    /\ sched.handler = "handle_schedule_time"
    /\ sched.error = ""

C8_ScheduleBooksChosenSlot ==
    ScheduleCompleted =>
        /\ sched.events = 1
        /\ sched.calendar_event = Len(calendar)
        /\ sched.calendar_event # NoId
        /\ calendar[sched.calendar_event].start = sched.chosen_slot.start
        /\ calendar[sched.calendar_event].end = sched.chosen_slot.end
        /\ \E n \in 1..Len(sched.fetched_slots) : sched.chosen_slot = sched.fetched_slots[n]
        /\ FoundRow.status = "scheduled"
        /\ FoundRow.interview_scheduled
        /\ FoundRow.interview_time = sched.chosen_slot.start[1]
        /\ FoundRow.calendar_event_id = sched.calendar_event

C8_Witness ==
    /\ ScheduleCompleted
    /\ sched.outcome = "returned"
    /\ sched.message_text = <<"2">>
    /\ Len(sched.fetched_slots) >= 2
    /\ sched.chosen_slot = sched.fetched_slots[2]
    /\ FoundRow.status = "scheduled"

\* C9: if GenerateMessage fails, no provider draft is created, the candidate's
\* email_draft_id is not written and run_recruiter raises.
RecruiterFinished == rec.pc = "done"
\* generate_email_node writes the subject only when it succeeds
GenerateFailed == rec.email_subject = ""

C9_GenerateFailureOnlyPropagates ==
    (RecruiterFinished /\ GenerateFailed)
        => /\ rec.drafts_created = 0
           /\ rec.updates = 0
           /\ rec.outcome = "raised"

\* C10: if the candidate has no email (absent or empty) when CreateDraft runs,
\* no provider draft is created, email_draft_id is not written, the error slot
\* is set and the outreach workflow raises.
C10_NoEmailNoDraft ==
    (RecruiterFinished /\ ~Truthy(rec.candidate.email))
        => /\ rec.drafts_created = 0
           /\ rec.draft_id = NoId
           /\ rec.updates = 0
           /\ db[rec.candidate.id].email_draft_id = rec.candidate.email_draft_id
           /\ rec.error = ErrNoEmail
           /\ rec.outcome = "raised"
           /\ rec.raised = ErrNoEmail

C10_Witness ==
    /\ RecruiterFinished
    /\ rec.candidate.email = ""
    /\ rec.outcome = "raised"
    /\ rec.drafts_created = 0

(* C11: after an outreach run that returns, the returned draft_id is the id
   create_draft returned for this candidate's draft, and the stored
   candidate's email_draft_id is that same id. *)
RecruiterReturned == rec.pc = "done" /\ rec.outcome = "returned"

C11_ReturnedDraftIsPersisted ==
    RecruiterReturned =>
        /\ rec.drafts_created = 1
        /\ rec.draft_id = drafts
        /\ rec.draft_id # NoId
        /\ rec.draft.to = rec.candidate.email
        /\ db[rec.candidate.id].email_draft_id = rec.draft_id

\* a run returned the second draft of the provider for a stored candidate
C11_Witness ==
    /\ RecruiterReturned
    /\ rec.draft_id = 2
    /\ db[rec.candidate.id].email_draft_id = 2

(* C12: when the approval request of the Notify node fails, the node leaves
   the error slot as it found it, and a run whose draft was created and
   recorded still returns draft_id, subject and body of that draft. *)
NotifyFailed == rec.pc \in {"end", "done"} /\ rec.requests = 0

C12_NotifyFailureIsNotFatal ==
    /\ (NotifyFailed /\ rec.updates = 1 /\ ~GenerateFailed) => rec.error = ""
    /\ (RecruiterFinished /\ NotifyFailed /\ rec.updates = 1 /\ ~GenerateFailed) =>
           /\ rec.outcome = "returned"
           /\ rec.draft_id = drafts
           /\ rec.draft = [to |-> rec.candidate.email,
                           subject |-> rec.email_subject,
                           body |-> rec.email_body]

C12_Witness ==
    /\ RecruiterFinished
    /\ NotifyFailed
    /\ rec.outcome = "returned"
    /\ rec.drafts_created = 1

(* C13: a failing notify call of the chat collaborator inside the three reply
   handlers or the approval action never makes the reply-routing workflow
   raise or the approval action return False. *)
C13_NotifyFailureNeverReported ==
    /\ ~(SchedFinished /\ sched.outcome = "raised" /\ sched.raised = ErrSlack)
    /\ ~(approval.result = "False" /\ approval.error = ErrSlack)

(* C14: the approval action called for a candidate that does not exist or
   has no recorded draft id returns False, sends no draft and leaves the
   candidate store as it was. *)
ApprovalStep == approval.result = "none" /\ approval'.result # "none"

C14_BlockedApprovalChangesNothing ==
    [][ ( /\ ApprovalStep
          /\ \/ approval'.candidate_id \notin DOMAIN db
             \/ db[approval'.candidate_id].email_draft_id = NoId )
        => /\ approval'.result = "False"
           /\ approval'.sent_draft = NoId
           /\ db' = db ]_vars

\* an approval of a stored candidate without a draft was refused, with no
\* collaborator failing
C14_Witness ==
    /\ approval.result = "False"
    /\ approval.error = ""
    /\ approval.candidate_id \in DOMAIN db
    /\ db[approval.candidate_id].email_draft_id = NoId
    /\ ~db[approval.candidate_id].email_sent

(* C15: the approval action called for a candidate with a recorded draft id,
   while the email collaborator and the store succeed, sends that draft,
   sets email_sent and status contacted and returns True. *)
C15_ApprovalSucceeds ==
    ( /\ approval.result # "none"
      /\ approval.candidate_id \in DOMAIN db
      /\ db[approval.candidate_id].email_draft_id # NoId
      /\ approval.error \notin {ErrGmail, ErrStore} )
    => /\ approval.result = "True"
       /\ approval.sent_draft = db[approval.candidate_id].email_draft_id
       /\ db[approval.candidate_id].email_sent
       /\ db[approval.candidate_id].status = "contacted"

(* C16: once email_sent, reply_received or interview_scheduled is true for a
   stored candidate, no step of outreach, approval or reply routing makes it
   false again. *)
C16_FlagsStaySet ==
    [][ \A i \in DOMAIN db :
          /\ i \in DOMAIN db'
          /\ db[i].email_sent => db'[i].email_sent
          /\ db[i].reply_received => db'[i].reply_received
          /\ db[i].interview_scheduled => db'[i].interview_scheduled ]_vars

\* an approval was applied to a candidate whose reply had been received
C16_Witness ==
    /\ approval.result = "True"
    /\ db[approval.candidate_id].reply_received
    /\ db[approval.candidate_id].email_sent

(* ------------------------ screening workflow -------------------------- *)
ScrFiles == scr.resume_folder.pdf_files
ParsedFiles == {i \in DOMAIN ScrFiles : ScrFiles[i].parses}
QualifyingFiles ==
    {i \in ParsedFiles : ScrFiles[i].fit # NoScore /\ ScrFiles[i].fit >= FitScoreThreshold}
AfterParse == scr.pc \in {"calculate_scores", "save_to_database", "end", "done"}
AfterScores == scr.pc \in {"save_to_database", "end", "done"}

(* C17: in parse_resumes_node a file whose parse fails is skipped and nothing
   else: the processed list holds, in folder order, exactly the files whose
   parse succeeded, and the node leaves the error slot empty. *)
C17_ParseFailureSkipsOnlyThatFile ==
    (AfterParse /\ scr.resume_folder.exists) =>
        /\ Len(scr.processed_resumes) = Cardinality(ParsedFiles)
        /\ \A i \in DOMAIN ScrFiles :
              i \in ParsedFiles <=>
                  \E j \in DOMAIN scr.processed_resumes :
                      scr.processed_resumes[j].file_name = ScrFiles[i].name
        /\ \A j \in DOMAIN scr.processed_resumes : \A l \in DOMAIN scr.processed_resumes :
              j < l => scr.processed_resumes[j].file_name < scr.processed_resumes[l].file_name
        /\ scr.pc = "calculate_scores" => scr.error = ""

\* a file that failed to parse lies between two that were processed
C17_Witness ==
    /\ scr.pc = "calculate_scores"
    /\ Len(ScrFiles) = 3
    /\ ParsedFiles = {1, 3}
    /\ Len(scr.processed_resumes) = 2

(* C18: calculate_scores_node makes a parsed resume a candidate with status
   screened exactly when its fit score is at least the threshold, a score
   equal to the threshold included; a resume below it gives no candidate
   and no error. *)
C18_QualifiesIffAtLeastThreshold ==
    AfterScores =>
        /\ Len(scr.qualified_candidates) = Cardinality(QualifyingFiles)
        /\ \A i \in ParsedFiles :
              i \in QualifyingFiles <=>
                  \E c \in DOMAIN scr.qualified_candidates :
                      /\ scr.qualified_candidates[c].name = ScrFiles[i].name
                      /\ scr.qualified_candidates[c].fit_score = ScrFiles[i].fit
                      /\ scr.qualified_candidates[c].status = "screened"
        /\ (scr.pc = "save_to_database" /\ scr.resume_folder.exists) => scr.error = ""

\* one resume at the threshold qualified, one just below it did not
C18_Witness ==
    /\ scr.pc = "save_to_database"
    /\ Len(ScrFiles) = 2
    /\ ScrFiles[1].parses /\ ScrFiles[1].fit = FitScoreThreshold - 1
    /\ ScrFiles[2].parses /\ ScrFiles[2].fit = FitScoreThreshold
    /\ Len(scr.qualified_candidates) = 1
    /\ scr.qualified_candidates[1].name = 2
    /\ scr.error = ""

(* C19: a screening run that returns gives exactly the qualifying candidates
   in the order of the parsed resumes, and each of them has been saved and
   carries the id the store assigned to its row. *)
ScreenerReturned == scr.pc = "done" /\ scr.outcome = "returned"

C19_ReturnsSavedQualifiersInOrder ==
    ScreenerReturned =>
        /\ Len(scr.result) = Cardinality(QualifyingFiles)
        /\ {scr.result[a].name : a \in DOMAIN scr.result} =
               {ScrFiles[i].name : i \in QualifyingFiles}
        /\ \A a \in DOMAIN scr.result : \A b \in DOMAIN scr.result :
              a < b => /\ scr.result[a].name < scr.result[b].name
                       /\ scr.result[a].id # scr.result[b].id
        /\ \A a \in DOMAIN scr.result :
              /\ scr.result[a].id \in DOMAIN db
              /\ scr.result[a].id > scr.rows_before
              /\ db[scr.result[a].id] = StoredRow(scr.result[a])

\* the returned list is in folder order although the scores ascend
C19_Witness ==
    /\ ScreenerReturned
    /\ Len(scr.result) = 2
    /\ scr.result[1].fit_score < scr.result[2].fit_score
    /\ scr.rows_before = 1
    /\ scr.result[1].id = 2

(* C20: when the k-th save of save_to_database_node raises, the first k-1
   candidates stay in the store, no later candidate is saved, the error slot
   is set and run_screener raises. *)
SaveFailed ==
    /\ scr.pc \in {"end", "done"}
    /\ scr.save_fault \in 1..Len(scr.qualified_candidates)

C20_FailedSaveKeepsEarlierRows ==
    SaveFailed =>
        /\ \A j \in 1..(scr.save_fault - 1) :
              /\ scr.rows_before + j \in DOMAIN db
              /\ db[scr.rows_before + j] = StoredRow(scr.qualified_candidates[j])
        /\ Len(db) <= scr.rows_before + scr.save_fault
        /\ \A j \in (scr.save_fault + 1)..Len(scr.qualified_candidates) :
              scr.qualified_candidates[j].id = NoId
        /\ scr.error # ""
        /\ scr.pc = "done" => scr.outcome = "raised" /\ scr.raised = scr.error

\* the second of three saves raised: one row was added and the run raised
C20_Witness ==
    /\ scr.pc = "done"
    /\ scr.save_fault = 2
    /\ Len(scr.qualified_candidates) = 3
    /\ Len(db) = scr.rows_before + 1
    /\ scr.outcome = "raised"

(* ------------------------------ pipeline ------------------------------ *)
PipelineReturned == pipe.pc = "done" /\ pipe.outcome = "returned"
\* positions of the outreach runs that returned
OutreachReturned ==
    {i \in DOMAIN pipe.outreach_outcomes : pipe.outreach_outcomes[i] = "returned"}

(* C21: with auto-draft on, the pipeline runs the outreach workflow once for
   every qualifying candidate, one at a time in screening order; a failing
   run does not stop the later ones, and drafts_created holds exactly the
   candidates whose run returned, in that order. *)
C21_OutreachForEveryQualifier ==
    /\ (pipe.pc = "outreach" /\ rec.pc # "idle") =>
           Len(pipe.outreach_runs) = Len(pipe.outreach_outcomes) + 1
    /\ (PipelineReturned /\ pipe.auto_draft) =>
        /\ pipe.outreach_runs =
               [i \in DOMAIN pipe.qualified_candidates |->
                   pipe.qualified_candidates[i].name]
        /\ Len(pipe.outreach_outcomes) = Len(pipe.outreach_runs)
        /\ Len(pipe.drafts_created) = Cardinality(OutreachReturned)
        /\ {pipe.drafts_created[d].candidate_name : d \in DOMAIN pipe.drafts_created} =
               {pipe.outreach_runs[i] : i \in OutreachReturned}
        /\ \A d \in DOMAIN pipe.drafts_created : \A e \in DOMAIN pipe.drafts_created :
              d < e => pipe.drafts_created[d].candidate_name <
                           pipe.drafts_created[e].candidate_name

\* the outreach of the second of three candidates failed, the third has a draft
C21_Witness ==
    /\ PipelineReturned
    /\ pipe.auto_draft
    /\ pipe.outreach_outcomes = <<"returned", "raised", "returned">>
    /\ Len(pipe.drafts_created) = 2
    /\ pipe.drafts_created[2].candidate_name = pipe.qualified_candidates[3].name

(* C22: when the screening workflow fails, the pipeline raises and starts no
   outreach workflow, not even for candidates saved before the failure. *)
ScreeningFailed == pipe.pc = "done" /\ scr.pc = "done" /\ scr.outcome = "raised"

C22_ScreeningFailureStopsPipeline ==
    ScreeningFailed =>
        /\ pipe.outcome = "raised"
        /\ pipe.raised = scr.raised
        /\ pipe.outreach_runs = <<>>
        /\ pipe.drafts_created = <<>>
        /\ rec.pc = "idle"
        /\ drafts = pipe.drafts_before
        /\ \A i \in DOMAIN db : i > scr.rows_before => db[i].email_draft_id = NoId

\* the second save failed: one candidate of this run is in the store
C22_Witness ==
    /\ ScreeningFailed
    /\ pipe.auto_draft
    /\ scr.save_fault = 2
    /\ Len(db) > scr.rows_before
    /\ pipe.outcome = "raised"

(* C23: with the auto-draft flag off the pipeline starts no outreach
   workflow: no draft, no approval request, no email_draft_id written and
   drafts_created empty, while the qualifying candidates are screened and
   saved. *)
C23_NoAutoDraftNoOutreach ==
    (pipe.pc # "idle" /\ ~pipe.auto_draft) =>
        /\ rec = RecruiterIdle
        /\ pipe.outreach_runs = <<>>
        /\ pipe.drafts_created = <<>>
        /\ drafts = pipe.drafts_before
        /\ \A i \in DOMAIN db : i > scr.rows_before => db[i].email_draft_id = NoId
        /\ PipelineReturned =>
              /\ Len(pipe.qualified_candidates) = Cardinality(QualifyingFiles)
              /\ \A a \in DOMAIN pipe.qualified_candidates :
                    /\ pipe.qualified_candidates[a].id \in DOMAIN db
                    /\ db[pipe.qualified_candidates[a].id] =
                           StoredRow(pipe.qualified_candidates[a])
                    /\ pipe.qualified_candidates[a].status = "screened"

\* two candidates were screened and saved and the run returned without drafts
C23_Witness ==
    /\ PipelineReturned
    /\ ~pipe.auto_draft
    /\ Len(pipe.qualified_candidates) = 2
    /\ Len(db) = scr.rows_before + 2

(* --------------------------- get_free_slots --------------------------- *)
SlotsCall == call.fn = "get_free_slots"
SlotsReturned == SlotsCall /\ ~call.result.raised
\* the free candidate slots of the call, by their start
CandidateStarts ==
    {At(d, h, 0) : d \in Today(call.now)..(Today(call.now) + call.days_ahead - 1),
                   h \in 9..16}
FreeStarts ==
    {t \in CandidateStarts :
        /\ (t \div 1440) % 7 \notin {5, 6}
        /\ t >= call.now
        /\ \A b \in DOMAIN call.busy_times :
              ~(t < call.busy_times[b].end /\ t + call.duration > call.busy_times[b].start)}

(* C24: whatever the current time, days_ahead, duration and busy intervals,
   get_free_slots returns at most 3 slots, none starting before now, none on
   a Saturday or Sunday and none overlapping a busy interval. *)
C24_ReturnedSlotsAreAdmissible ==
    SlotsReturned =>
        /\ Len(call.result.slots) <= 3
        /\ \A i \in DOMAIN call.result.slots :
              LET start == call.result.slots[i].start[1]
                  end == call.result.slots[i].end[1]
              IN  /\ start >= call.now
                  /\ (start \div 1440) % 7 \notin {5, 6}
                  /\ \A b \in DOMAIN call.busy_times :
                        ~(start < call.busy_times[b].end /\ end > call.busy_times[b].start)

\* called on Friday 16:00 it returns that slot and, past the weekend, two
\* slots of Monday
C24_Witness ==
    /\ SlotsReturned
    /\ call.now = At(4, 16, 0)
    /\ Len(call.result.slots) = 3
    /\ call.result.slots[1].start[1] = call.now
    /\ call.result.slots[2].start[1] = At(7, 9, 0)

(* C25: get_free_slots returns, in ascending start order, exactly the
   earliest min(3, k) of the k free candidate slots: the full hours 9..16 of
   the weekdays among today and the next days_ahead-1 days, without the
   elapsed ones and those overlapping a busy interval. *)
C25_ReturnsEarliestFreeSlots ==
    (SlotsCall /\ call.query_ok) =>
        /\ ~call.result.raised
        /\ Len(call.result.slots) =
               (IF Cardinality(FreeStarts) < 3 THEN Cardinality(FreeStarts) ELSE 3)
        /\ \A i \in DOMAIN call.result.slots :
              /\ call.result.slots[i].start[1] \in FreeStarts
              /\ call.result.slots[i].end[1] = call.result.slots[i].start[1] + call.duration
              /\ Cardinality({t \in FreeStarts : t < call.result.slots[i].start[1]}) = i - 1

(* ------------------------------ inbox scan ---------------------------- *)
(* C26: the scan-inbox command exits non-zero whenever the scan fails: when
   listing the inbox or the store fails, or when a reply-routing workflow
   the scan started reports failure. *)
C26_FailedScanExitsNonZero ==
    (scan.pc = "exited" /\ scan.failure # "") => scan.exit_code # 0

(* ------------------------------- scoring ------------------------------ *)
ScoreCall == call.fn = "calculate_fit_score"
SharedTerms == TermSet(Tokens(call.resume_text)) \cap TermSet(Tokens(call.jd_text))

(* C27: for every resume and job whose documents share no unigram or bigram
   after lower-casing and stop-word removal, the fit score is 0. *)
C27_NoSharedTermScoresZero ==
    (ScoreCall /\ SharedTerms = {}) =>
        ~call.result.raised /\ call.result.fit_score = 0

(* C28: when the resume document or the job document, or both, is empty
   after tokenization, calculate_fit_score returns 0 and does not raise. *)
C28_EmptyDocumentScoresZero ==
    (ScoreCall /\ (RawTokens(call.resume_text) = <<>> \/ RawTokens(call.jd_text) = <<>>)) =>
        ~call.result.raised /\ call.result.fit_score = 0

(* C29: the resume document is, in this order, the technical, soft and
   certification skills three times, each experience entry's role, company,
   description (if any) and projects, each education entry's degree, field
   and institution, the summary (if any), and "<N> years experience"
   whenever total_years_experience is present, N = 0 included. *)
TextCall == call.fn = "_resume_to_text"

C29_ResumeDocumentLayout ==
    TextCall =>
        LET r == call.resume_data
            skills == r.skills.technical_skills \o r.skills.soft_skills
                          \o r.skills.certifications
            years == IF r.total_years_experience # NoYears
                     THEN <<YearsText(r.total_years_experience)>> ELSE <<>>
        IN  call.result =
                skills \o skills \o skills
                \o Flatten([i \in DOMAIN r.experience |->
                       <<r.experience[i].role, r.experience[i].company>>
                       \o (IF r.experience[i].description \notin {None, ""}
                           THEN <<r.experience[i].description>> ELSE <<>>)
                       \o r.experience[i].projects])
                \o Flatten([i \in DOMAIN r.education |->
                       <<r.education[i].degree, r.education[i].field,
                         r.education[i].institution>>])
                \o (IF r.summary \notin {None, ""} THEN <<r.summary>> ELSE <<>>)
                \o years

(* ------------------- two reply-routing instances ---------------------- *)
(* C30: two reply-routing instances running at once for one candidate are
   not serialized: both can pass the lookup before either writes the status,
   then both handlers run their side effects, and the stored status is the
   one the last writer wrote, whatever the other instance wrote before. *)
HandlerPcs == {"handle_interested", "handle_schedule_time", "handle_not_interested"}

C30_LastWriterWins ==
    [][ ( /\ sched.pc \in HandlerPcs
          /\ parked' = parked
          /\ sched'.updates = sched.updates + 1 )
        => /\ db'[sched.candidate.id].status =
                 (CASE sched.pc = "handle_interested" -> "interested"
                    [] sched.pc = "handle_schedule_time" -> "scheduled"
                    [] OTHER -> "rejected")
           /\ sched.pc = "handle_schedule_time" =>
                 /\ Len(calendar') = Len(calendar) + 1
                 /\ sched'.emails = sched.emails + 1 ]_vars

\* both instances found the candidate as contacted, both booked an
\* interview: two events for the one candidate
C30_Witness ==
    /\ sched.pc = "done" /\ parked.pc = "done"
    /\ sched.candidate.id = 1 /\ parked.candidate.id = 1
    /\ sched.candidate.status = "contacted" /\ parked.candidate.status = "contacted"
    /\ sched.outcome = "returned" /\ parked.outcome = "returned"
    /\ sched.events = 1 /\ parked.events = 1
    /\ Len(calendar) = 2
    /\ db[1].status = "scheduled"

\* C31: the schedule handler picks the slot by position in the list it has
\* just fetched (the position of the leftmost standalone digit, the first
\* slot without one or beyond the list) and reads nothing kept from the turn
\* that mailed the time options; so the slot booked for reply k can differ
\* from the k-th slot of that mail when the calendar answered differently.
C31_SlotFromFreshList ==
    (/\ sched.pc \in {"end", "done"}
     /\ sched.handler = "handle_schedule_time"
     /\ sched.fetched_slots # <<>>)
        => LET k == LeftmostDigit(sched.message_text)
               slots == sched.fetched_slots
               position == IF k \in 1..Len(slots) THEN k ELSE 1
           IN  /\ sched.chosen_slot = slots[position]
               /\ sched.available_slots = <<>>
               /\ (sched.events = 1 =>
                      /\ calendar[sched.calendar_event].start = slots[position].start
                      /\ calendar[sched.calendar_event].end = slots[position].end)

\* the time options were mailed and the candidate marked interested, then the
\* reply "2" booked a slot that is not the second one of that mail
C31_Witness ==
    /\ parked.pc = "done"
    /\ parked.handler = "handle_interested"
    /\ parked.emails = 1
    /\ parked.updates = 1
    /\ Len(parked.fetched_slots) >= 2
    /\ sched.pc \in {"end", "done"}
    /\ sched.handler = "handle_schedule_time"
    /\ sched.message_text = <<"2">>
    /\ sched.events = 1
    /\ sched.updates = 1
    /\ db[1].status = "scheduled"
    /\ calendar[sched.calendar_event].start # parked.fetched_slots[2].start

\* errors of the collaborators, and of a calendar without a free slot
CollaboratorErrors == {ErrLLM, ErrStore, ErrGmail, ErrCalendar, ErrSlack}

\* the stored candidate's interested reply has been handled
InterestedHandled == db[1].reply_received /\ db[1].status # "rejected"

\* C32: after a candidate's interested reply has been handled, a scan that
\* passes a schedule_time reply of that candidate to reply-routing, with a
\* free slot and no collaborator failure, ends with the candidate scheduled.
C32_ScanCompletesHappyPath ==
    (/\ scan.pc = "loop"
     /\ sched.pc = "done"
     /\ sched.candidate_email = "a@x"
     /\ sched.intent = "schedule_time"
     /\ InterestedHandled
     /\ sched.error \notin CollaboratorErrors \cup ChoiceErrors
     /\ sched.raised \notin CollaboratorErrors \cup ChoiceErrors)
        => db[1].status = "scheduled"

\* a node leaves a non-empty error slot non-empty
ErrorStays(before, after) ==
    (before.pc \notin {"idle", "done"} /\ before.error # "") => after.error # ""

\* the run function has ended: it returned if none of these nodes failed and
\* raised otherwise
EndsByFailures(st, failed) ==
    st.pc = "done" =>
        /\ st.outcome \in {"returned", "raised"}
        /\ (st.outcome = "returned" <=> failed = {})

\* C33 (as claimed): in each of the three workflows a non-empty error slot
\* stays non-empty through every later node, and the run function returns
\* normally if and only if no node failed during the instance; otherwise it
\* raises.
C33_ReturnsIffNoNodeFailed ==
    [][/\ ErrorStays(scr, scr') /\ ErrorStays(rec, rec') /\ ErrorStays(sched, sched')
       /\ EndsByFailures(scr', scr'.failed)
       /\ EndsByFailures(rec', rec'.failed)
       /\ EndsByFailures(sched', sched'.failed)]_vars

\* C33 (amended): in each of the three workflows a non-empty error slot stays
\* non-empty through every later node, and the run function returns normally
\* if and only if no node other than the notification node of the outreach
\* workflow failed during the instance; otherwise it raises.  A failure of
\* that notification node leaves the error slot as it was.
C33_ReturnsIffNoRecordedFailure ==
    [][/\ ErrorStays(scr, scr') /\ ErrorStays(rec, rec') /\ ErrorStays(sched, sched')
       /\ EndsByFailures(scr', scr'.failed)
       /\ EndsByFailures(rec', rec'.failed \ {"send_notification"})
       /\ EndsByFailures(sched', sched'.failed)
       /\ (rec.pc = "send_notification" => rec'.error = rec.error)]_vars

\* the first node of reply-routing failed, the lookup and the handler after
\* it succeeded, and process_candidate_reply raised
C33_Witness ==
    /\ sched.pc = "done"
    /\ sched.failed = {"detect_intent"}
    /\ sched.lookup = "found"
    /\ sched.error = ErrLLM
    /\ sched.outcome = "raised"

\* C34: the interested handler, the schedule handler and the approval action
\* update the candidate only after their outbound email call returned, the
\* schedule handler also only after the calendar event was created: a status
\* interested, scheduled or contacted written by them implies the mail was sent.
C34_UpdateOnlyAfterSend ==
    [][/\ (sched.pc = "handle_interested"
            /\ (sched'.updates # sched.updates \/ db' # db))
           => /\ sched'.emails = sched.emails + 1
              /\ db'[sched.candidate.id].status = "interested"
       /\ (sched.pc = "handle_schedule_time"
            /\ (sched'.updates # sched.updates \/ db' # db))
           => /\ sched'.emails = sched.emails + 1
              /\ sched'.events = sched.events + 1
              /\ Len(calendar') = Len(calendar) + 1
              /\ db'[sched.candidate.id].status = "scheduled"
       /\ (ApprovalStep /\ (db' # db \/ approval'.result = "True"))
           => /\ approval'.sent_draft # NoId
              /\ approval'.sent_draft = db[approval'.candidate_id].email_draft_id
              /\ db'[approval'.candidate_id].status = "contacted"]_vars

\* the interested handler sent the time options and then marked the candidate
C34_Witness ==
    /\ sched.pc = "end"
    /\ sched.handler = "handle_interested"
    /\ sched.emails = 1
    /\ sched.updates = 1
    /\ db[sched.candidate.id].status = "interested"

\* the calendar events created for the stored candidate i
EventsFor(i) == {e \in DOMAIN calendar : calendar[e].attendee = db[i].email}

\* C35: across any sequence of inbox scans and approval actions, with
\* collaborator calls allowed to fail, at most one calendar event is ever
\* created for a given candidate.
C35_OneEventPerCandidate ==
    \A i \in DOMAIN db : Cardinality(EventsFor(i)) <= 1

\* the messages of the scan, up to position n, that the loop passes on
RepliesUpTo(n) ==
    {i \in 1..n : i \in DOMAIN scan.messages
                     /\ IsCandidateReply(scan.messages[i], scan.candidate_emails)}

\* C36: a reply-routing failure on one message ends the scan: no later
\* message of the scan is passed to reply-routing, and what the messages
\* handled before it did to the store and the calendar is kept.
C36_ReplyFailureEndsScan ==
    [][/\ (scan.pc = "loop" /\ sched.pc = "done" /\ sched.outcome = "raised")
           => /\ scan'.pc = "end"
              /\ scan'.failure = sched.raised
              /\ scan'.next = scan.next
              /\ db' = db
              /\ calendar' = calendar
       /\ (scan.pc \in {"end", "exited"} /\ scan.failure # "")
           => /\ sched' = sched
              /\ sched.pc = "idle"
              /\ (scan'.pc # "idle" => scan'.handled = scan.handled)
              /\ scan.handled = Cardinality(RepliesUpTo(scan.next))
              /\ db' = db
              /\ calendar' = calendar]_vars

\* the first of two candidate replies failed and the second was not handled
C36_Witness ==
    /\ scan.pc = "exited"
    /\ scan.failure # ""
    /\ scan.handled = 1
    /\ scan.next = 1
    /\ Len(scan.messages) = 2
    /\ IsCandidateReply(scan.messages[2], scan.candidate_emails)

\* C37: in the outreach workflow an approval request is sent for a candidate
\* only if a provider draft was created for that candidate earlier in the
\* same workflow instance.
C37_RequestOnlyAfterDraft ==
    rec.requests > 0 => rec.drafts_created > 0 /\ rec.draft_id # NoId

\* C38: whenever the approval action returns failure, the candidate's draft
\* has not been sent and the candidate's email_sent and status are unchanged.
C38_FailedApprovalDidNothing ==
    [][(ApprovalStep /\ approval'.result = "False")
          => /\ approval'.sent_draft = NoId
             /\ db' = db]_vars

\* C39: get_free_slots returns a slot list and does not raise whenever the
\* free/busy query succeeds, also when the query reports busy intervals:
\* comparing a slot with the bounds of a busy interval yields a truth value.
C39_ReturnsWhenQuerySucceeds ==
    (SlotsCall /\ call.query_ok) => ~call.result.raised

\* a schedule handler run for a found candidate whose calendar call returned
\* an empty list
ScheduleFoundNoSlot ==
    /\ sched.pc \in {"end", "done"}
    /\ sched.handler = "handle_schedule_time"
    /\ sched.lookup = "found"
    /\ sched.fetched_slots = <<>>
    /\ sched.error # ErrCalendar

\* what such a run leaves behind
NoSlotOutcome ==
    ScheduleFoundNoSlot
        => /\ sched.error =
                  (IF LeftmostDigit(sched.message_text) = 0 THEN ErrNoSlots ELSE ErrIndex)
           /\ sched.events = 0
           /\ sched.calendar_event = NoId
           /\ sched.emails = 0
           /\ sched.updates = 0
           /\ FoundRow = StoredRow(sched.candidate)
           /\ (sched.pc = "done" => sched.outcome = "raised")

\* C40: when the calendar returns no free slot, the schedule handler records
\* an error, creates no calendar event, sends no email and leaves the
\* candidate unchanged, whether or not the reply contains a slot digit.
C40_NoSlotNoEffect ==
    [][/\ NoSlotOutcome'
       /\ (sched.pc = "handle_schedule_time" /\ ScheduleFoundNoSlot')
           => calendar' = calendar /\ db' = db]_vars

\* the reply holds a slot digit, the calendar returned no slot, and
\* process_candidate_reply raised
C40_Witness ==
    /\ ScheduleFoundNoSlot
    /\ sched.pc = "done"
    /\ LeftmostDigit(sched.message_text) = 2
    /\ sched.error = ErrIndex
    /\ sched.outcome = "raised"
    /\ FoundRow.status = "contacted"

====
